---- MODULE Spec2Model ----
(***************************************************************************)
(* A model of the CiRA edge inference runtime (siridech-bo/cira-claw):     *)
(* the YOLO output decoder and its non-maximum suppression                 *)
(* (runtime/src/yolo_decoder.c), and the context that the capture thread,  *)
(* the HTTP connection threads and the API callers share                   *)
(* (runtime/src/cira.c, camera.cpp, stream_server.c).                      *)
(*                                                                         *)
(* Numbers.  The C code computes in 32-bit floats.  The model holds every  *)
(* float as an integer count of tenths (One = 1.0f), and the tensors it    *)
(* explores hold even widths and heights so that w * 0.5f is exact.        *)
(* An IoU is kept as the exact fraction inter / uni and compared with a    *)
(* threshold by cross-multiplying.  Products of two scores are truncated   *)
(* to tenths.  Float rounding itself is not modelled.                      *)
(***************************************************************************)
EXTENDS Integers, Sequences, FiniteSets, TLC

VARIABLES
    \* ---- one yolo_decode call (SpecDecode) ----
    tensor,       \* [data: flat float buffer, shape: output_shape], num_dims = Len(shape)
    config,       \* yolo_decode_config_t
    max_dets,     \* size of the caller's detections array
    result,       \* [count: the return value, dets: detections[0..count)]
    dpc,          \* "ready" | "decoded"
    \* ---- yolo_nms calls on one detection list (SpecNms) ----
    nin,          \* the detection list handed to yolo_nms
    nthr,         \* nms_threshold of the first call
    nout,         \* detections after yolo_nms(nin, nthr)
    nout2,        \* detections after yolo_nms(nout, nthr)
    nthr2,        \* a threshold >= nthr
    nhi,          \* detections after yolo_nms(nin, nthr2)
    npc,          \* "in" | "once" | "twice" | "higher"
    \* ---- a multi-output model decoded tensor by tensor (SpecFusion) ----
    fts,          \* the output tensors, one per scale
    fidx,         \* index of the next tensor to decode
    fcat,         \* the concatenation of the per-tensor results so far
    fout,         \* detections after the final NMS pass
    fpc,          \* "decoding" | "fused"
    \* ---- the context shared by the threads (SpecRuntime) ----
    status,       \* ctx->status
    format,       \* ctx->format
    model_handle, \* ctx->model_handle: 0 is NULL, otherwise the model's identity
    freed,        \* the models that a backend unload has freed
    nloads,       \* cira_load calls so far; the n-th call allocates model n
    model_mutex,  \* owner of ctx->model_mutex, or "none"
    result_mutex, \* owner of ctx->result_mutex, or "none"
    frame_mutex,  \* owner of ctx->frame_mutex, or "none"
    frame_buffer, \* ctx->frame_buffer: 0 is NULL, 1 is the allocated buffer
    frame_w,      \* ctx->frame_w
    frame_h,      \* ctx->frame_h
    pc,           \* position of each thread
    using,        \* per thread: the model its running backend predict works on, or 0
    sframe,       \* stream_callback's locals frame, w, h
    call,         \* the cira_predict_image call in progress
    last,         \* the last cira_predict_image call that returned
    err_since_load, \* a cira_predict_image call has returned an error since the last cira_load began
    load_ret,     \* [returned, ret, status]: the last cira_load that returned and ctx->status then
    \* ---- one backend predict call on the outputs of a model (SpecBackend) ----
    backend,      \* ctx->format of the loaded model: "ONNX" | "NCNN" | "DARKNET"
    outs,         \* what the inference produced: output tensors, a Mat, or darknet detections
    yver,         \* ctx->yolo_version, set by load_model_manifest
    img,          \* [w, h]: size of the image handed to predict
    published,    \* ctx->detections[0..ctx->num_detections)
    bret,         \* the value the backend predict returned
    bpc,          \* "ready" | "done"
    \* ---- shape heuristics (SpecDetect, SpecDfl) ----
    dshape,       \* output_shape handed to yolo_detect_version; num_dims = Len(dshape)
    dnc,          \* num_classes handed to yolo_detect_version
    detected,     \* the version yolo_detect_version returned
    dfl_in,       \* [input_w, input_h, box_idx]: a box of the combined DFL tensor
    dfl_cell,     \* the scale, grid cell and stride the DFL loop decodes that box with
    spc,          \* "ready" | "done"
    ia,           \* first box handed to the IoU functions
    ib,           \* second box handed to the IoU functions
    ires,         \* what iou and compute_iou returned for (ia, ib), (ib, ia), (ia, ia)
    ipc,          \* "boxes" | "computed"
    server_running, \* ctx->server_running
    g_server,     \* stream_server.c's g_server: "NULL" | "running" (allocated, running = 1)
    daemon,       \* the MHD daemon: "none" | "listening"
    ctx_live,     \* the context has not been handed to cira_destroy
    srv_calls,    \* [starts, started_ok, stopped_ok]: the API calls made so far
    handled,      \* [total, after_stop, after_destroy]: requests the daemon's handler served
    sctx,         \* the stream_ctx_t of one MJPEG connection
    wire,         \* the bytes stream_callback has delivered on that connection, in order
    sizes,        \* jpeg_size of each frame the connection has encoded, in order
    cb,           \* [calls, max, ret]: the stream_callback calls so far and the last one
    mtx,          \* owner of each mutex of the runtime, or "none"
    tpc,          \* position of each thread of the streaming runtime
    top,          \* per thread [op, ann]: the operation it runs and its annotated flag
    g_jpeg_buffer, \* whose encode produced the bytes of jpeg_encoder.cpp's g_jpeg_buffer, or "torn"
    copied,       \* per thread: what it read through the pointer its encode call returned
    det_list,     \* ctx->detections and num_detections: [gen, count, partial], partial while cleared and refilled
    result_json,  \* ctx->result_json: [gen, count] of the detection list it was built from
    frame_file,   \* ctx->frame_file_path is set
    seen_partial, \* an annotated encode has read the detection list while it was partial
    camera_running, \* ctx->camera_running
    g_capture,    \* camera.cpp's g_capture: 0 is NULL, otherwise the VideoCapture it points to
    captures,     \* the VideoCapture objects that hold an open device
    cam_threads,  \* the capture threads that exist: [id, state], state "started" | "looping"
    camera_thread, \* ctx->camera_thread: the thread the last pthread_create made, 0 before
    cpc,          \* position of each caller of camera_start and camera_stop
    ncap          \* VideoCapture objects and threads created so far

decodeVars == <<tensor, config, max_dets, result, dpc>>
nmsVars == <<nin, nthr, nout, nout2, nthr2, nhi, npc>>
fusionVars == <<fts, fidx, fcat, fout, fpc>>
backendVars == <<backend, outs, yver, img, published, bret, bpc>>
shapeVars == <<dshape, dnc, detected, dfl_in, dfl_cell, spc>>
runtimeVars == <<status, format, model_handle, freed, nloads, model_mutex, result_mutex,
                 frame_mutex, frame_buffer, frame_w, frame_h, pc, using, sframe, call,
                 last, err_since_load, load_ret>>
iouVars == <<ia, ib, ires, ipc>>
serverVars == <<server_running, g_server, daemon, ctx_live, srv_calls, handled>>
streamVars == <<sctx, wire, sizes, cb>>
shareVars == <<mtx, tpc, top, g_jpeg_buffer, copied, det_list, result_json, frame_file,
               seen_partial>>
cameraVars == <<camera_running, g_capture, captures, cam_threads, camera_thread, cpc, ncap>>
hostVars == <<iouVars, serverVars, streamVars, shareVars, cameraVars>>
coreVars == <<decodeVars, nmsVars, fusionVars, runtimeVars, backendVars, shapeVars>>
notIou == <<serverVars, streamVars, shareVars, cameraVars>>
notServer == <<iouVars, streamVars, shareVars, cameraVars>>
notStream == <<iouVars, serverVars, shareVars, cameraVars>>
notShare == <<iouVars, serverVars, streamVars, cameraVars>>
notCamera == <<iouVars, serverVars, streamVars, shareVars>>
vars == <<decodeVars, nmsVars, fusionVars, runtimeVars, backendVars, shapeVars, hostVars>>

(***************************************************************************)
(* Fixed point and the yolo_version_t enumeration.                         *)
(***************************************************************************)
One == 10

YOLO_VERSION_AUTO == "AUTO"
YOLO_VERSION_V4 == "V4"
YOLO_VERSION_V5 == "V5"
YOLO_VERSION_V8 == "V8"
YOLO_VERSION_V10 == "V10"
Versions == {YOLO_VERSION_AUTO, YOLO_VERSION_V4, YOLO_VERSION_V5,
             YOLO_VERSION_V8, YOLO_VERSION_V10}

Min(a, b) == IF a < b THEN a ELSE b
Max(a, b) == IF a > b THEN a ELSE b

\* output[idx] of a C float array held as a 1-based sequence
At(output, idx) == output[idx + 1]

\* a * b of two floats in tenths, truncated to tenths
Mul(a, b) == (a * b) \div One

\* w * 0.5f (exact on the even values the model's tensors hold)
Half(w) == w \div 2

\* (int)f : conversion of a float to int truncates toward zero
FloatToInt(f) == IF f >= 0 THEN f \div One ELSE -((-f) \div One)

(***************************************************************************)
(* sigmoid: 1 / (1 + exp(-x)), rounded to the nearest tenth.  The decoders *)
(* call it only for x < 0 or x > 1.0.                                      *)
(***************************************************************************)
sigmoid(x) ==
    IF x >= 30 THEN 10
    ELSE IF x >= 18 THEN 9
    ELSE IF x >= 9 THEN 8
    ELSE IF x >= 7 THEN 7
    ELSE IF x >= 3 THEN 6
    ELSE IF x >= -2 THEN 5
    ELSE IF x >= -6 THEN 4
    ELSE IF x >= -10 THEN 3
    ELSE IF x >= -17 THEN 2
    ELSE IF x >= -29 THEN 1
    ELSE 0

(***************************************************************************)
(* iou: intersection over union of two corner boxes, as the fraction       *)
(* num / den (den > 0).                                                    *)
(***************************************************************************)
iou(a, b) ==
    LET ix1 == Max(a.x1, b.x1)
        iy1 == Max(a.y1, b.y1)
        ix2 == Min(a.x2, b.x2)
        iy2 == Min(a.y2, b.y2)
        iw == Max(0, ix2 - ix1)
        ih == Max(0, iy2 - iy1)
        inter == iw * ih
        area_a == (a.x2 - a.x1) * (a.y2 - a.y1)
        area_b == (b.x2 - b.x1) * (b.y2 - b.y1)
        uni == area_a + area_b - inter
    IN  IF uni > 0 THEN [num |-> inter, den |-> uni] ELSE [num |-> 0, den |-> 1]

\* r > thr for a fraction r and a float thr in tenths
FracGt(r, thr) == r.num * One > thr * r.den

\* the alternative "iou >= nms_threshold"
IouAtLeast(a, b, nms_threshold) ==
    LET r == iou(a, b) IN r.num * One >= nms_threshold * r.den

\* yolo_nms line 314: iou(&detections[i], &detections[j]) > nms_threshold
IouExceeds(a, b, nms_threshold) == FracGt(iou(a, b), nms_threshold)

\* the alternative without the class test
AnyClass(a, b) == TRUE

\* yolo_nms line 312: the pair is skipped unless the class ids are equal
SameClass(a, b) == a.class_id = b.class_id

(***************************************************************************)
(* qsort(detections, count, ..., cmp_score_desc): cmp_score_desc returns 0 *)
(* for equal scores, and qsort leaves the order of equal elements          *)
(* unspecified, so every arrangement in descending score order is a        *)
(* possible outcome.                                                       *)
(***************************************************************************)
cmp_score_desc(da, db) ==
    IF db.score > da.score THEN 1 ELSE IF db.score < da.score THEN -1 ELSE 0

IsPermutation(p, n) == \A i \in 1..n : \E j \in 1..n : p[j] = i

QsortOutcomes(dets) ==
    LET n == Len(dets)
    IN  { [i \in 1..n |-> dets[p[i]]] :
            p \in { q \in [1..n -> 1..n] :
                      /\ IsPermutation(q, n)
                      /\ \A i \in 1..n : \A j \in 1..n :
                            i < j => cmp_score_desc(dets[q[i]], dets[q[j]]) <= 0 } }

(***************************************************************************)
(* yolo_nms on the sorted array: the marking sweep (lines 307-318) and the *)
(* compaction (lines 321-329).                                             *)
(***************************************************************************)
RECURSIVE NmsInner(_, _, _, _)
NmsInner(d, i, j, nms_threshold) ==
    IF j > Len(d) THEN d
    ELSE IF d[j].score < 0 THEN NmsInner(d, i, j + 1, nms_threshold)
    ELSE IF ~SameClass(d[i], d[j]) THEN NmsInner(d, i, j + 1, nms_threshold)
    ELSE IF IouExceeds(d[i], d[j], nms_threshold)
         THEN NmsInner([d EXCEPT ![j].score = -One], i, j + 1, nms_threshold)
         ELSE NmsInner(d, i, j + 1, nms_threshold)

RECURSIVE NmsSweep(_, _, _)
NmsSweep(d, i, nms_threshold) ==
    IF i > Len(d) THEN d
    ELSE IF d[i].score < 0 THEN NmsSweep(d, i + 1, nms_threshold)
    ELSE NmsSweep(NmsInner(d, i, i + 1, nms_threshold), i + 1, nms_threshold)

\* the alternative that returns the first `out` slots without moving entries
CompactNoCopy(d) ==
    SubSeq(d, 1, Cardinality({i \in 1..Len(d) : d[i].score >= 0}))

\* lines 321-329: the entries with score >= 0, moved to the front, in order
Compact(d) == SelectSeq(d, LAMBDA x : x.score >= 0)

\* yolo_nms(detections, count, nms_threshold): the possible contents of
\* detections[0..return value)
yolo_nms(detections, nms_threshold) ==
    IF Len(detections) <= 0 THEN {<<>>}
    ELSE { Compact(NmsSweep(s, 1, nms_threshold)) : s \in QsortOutcomes(detections) }

(***************************************************************************)
(* decode_yolov4 (also decode_yolov5, which forwards to it).               *)
(* Tensor [1, num_boxes, 5+C], one row per box:                            *)
(* cx, cy, w, h, objectness, class probabilities.                          *)
(***************************************************************************)
RECURSIVE V4BestClass(_, _, _, _, _, _)
V4BestClass(output, base, c, num_classes, best_class, best_prob) ==
    IF c >= num_classes THEN [class |-> best_class, prob |-> best_prob]
    ELSE IF At(output, base + 5 + c) > best_prob
         THEN V4BestClass(output, base, c + 1, num_classes, c, At(output, base + 5 + c))
         ELSE V4BestClass(output, base, c + 1, num_classes, best_class, best_prob)

\* lines 107-126: (cx, cy, w, h) -> corners; scaled by the input size when
\* all four raw values are <= 1.0
CenterBoxToDet(cx0, cy0, w0, h0, cfg, score, class_id) ==
    LET norm == cx0 <= One /\ cy0 <= One /\ w0 <= One /\ h0 <= One
        cx == IF norm THEN Mul(cx0, cfg.input_w * One) ELSE cx0
        cy == IF norm THEN Mul(cy0, cfg.input_h * One) ELSE cy0
        w == IF norm THEN Mul(w0, cfg.input_w * One) ELSE w0
        h == IF norm THEN Mul(h0, cfg.input_h * One) ELSE h0
    IN  [x1 |-> cx - Half(w), y1 |-> cy - Half(h),
         x2 |-> cx + Half(w), y2 |-> cy + Half(h),
         score |-> score, class_id |-> class_id]

\* the alternative that also drops a score equal to the threshold
AtOrBelowThreshold(score, conf_threshold) == score <= conf_threshold
\* `if (score < config->conf_threshold) continue;`
BelowThreshold(score, conf_threshold) == score < conf_threshold

RECURSIVE V4Loop(_, _, _, _, _, _, _, _)
V4Loop(output, num_boxes, box_size, num_classes, cfg, maxd, i, dets) ==
    IF ~(i < num_boxes /\ Len(dets) < maxd) THEN dets
    ELSE
      LET base == i * box_size
          obj0 == At(output, base + 4)
          obj == IF obj0 < 0 \/ obj0 > One THEN sigmoid(obj0) ELSE obj0
          best == V4BestClass(output, base, 1, num_classes, 0, At(output, base + 5))
          best_prob == IF best.prob < 0 \/ best.prob > One
                       THEN sigmoid(best.prob) ELSE best.prob
          score == Mul(obj, best_prob)
      IN  IF BelowThreshold(obj, cfg.conf_threshold)
          THEN V4Loop(output, num_boxes, box_size, num_classes, cfg, maxd, i + 1, dets)
          ELSE IF BelowThreshold(score, cfg.conf_threshold)
          THEN V4Loop(output, num_boxes, box_size, num_classes, cfg, maxd, i + 1, dets)
          ELSE V4Loop(output, num_boxes, box_size, num_classes, cfg, maxd, i + 1,
                      Append(dets, CenterBoxToDet(At(output, base), At(output, base + 1),
                                                  At(output, base + 2), At(output, base + 3),
                                                  cfg, score, best.class)))

\* returns [count, dets]; count = -1 is the error return
decode_yolov4(output, shape, num_dims, cfg, maxd) ==
    IF num_dims < 3 THEN [count |-> -1, dets |-> <<>>]
    ELSE
      LET num_boxes == shape[2]
          box_size == shape[3]
          num_classes == IF box_size < 5 + cfg.num_classes
                         THEN box_size - 5 ELSE cfg.num_classes
      IN  IF box_size < 5 + cfg.num_classes /\ num_classes <= 0
          THEN [count |-> -1, dets |-> <<>>]
          ELSE LET d == V4Loop(output, num_boxes, box_size, num_classes, cfg, maxd, 0, <<>>)
               IN  [count |-> Len(d), dets |-> d]

decode_yolov5(output, shape, num_dims, cfg, maxd) ==
    decode_yolov4(output, shape, num_dims, cfg, maxd)

(***************************************************************************)
(* decode_yolov8.  Tensor [1, 4+C, num_boxes], transposed: the value of    *)
(* channel k for box i is output[k * num_boxes + i].                       *)
(***************************************************************************)
RECURSIVE V8BestClass(_, _, _, _, _, _, _)
V8BestClass(output, num_boxes, i, c, num_classes, best_class, best_score) ==
    IF c >= num_classes THEN [class |-> best_class, score |-> best_score]
    ELSE IF At(output, (4 + c) * num_boxes + i) > best_score
         THEN V8BestClass(output, num_boxes, i, c + 1, num_classes, c,
                          At(output, (4 + c) * num_boxes + i))
         ELSE V8BestClass(output, num_boxes, i, c + 1, num_classes, best_class, best_score)

RECURSIVE V8Loop(_, _, _, _, _, _, _)
V8Loop(output, num_boxes, num_classes, cfg, maxd, i, dets) ==
    IF ~(i < num_boxes /\ Len(dets) < maxd) THEN dets
    ELSE
      LET best == V8BestClass(output, num_boxes, i, 1, num_classes, 0,
                              At(output, 4 * num_boxes + i))
          best_score == IF best.score < 0 \/ best.score > One
                        THEN sigmoid(best.score) ELSE best.score
      IN  IF BelowThreshold(best_score, cfg.conf_threshold)
          THEN V8Loop(output, num_boxes, num_classes, cfg, maxd, i + 1, dets)
          ELSE V8Loop(output, num_boxes, num_classes, cfg, maxd, i + 1,
                      Append(dets, CenterBoxToDet(At(output, i), At(output, num_boxes + i),
                                                  At(output, 2 * num_boxes + i),
                                                  At(output, 3 * num_boxes + i),
                                                  cfg, best_score, best.class)))

decode_yolov8(output, shape, num_dims, cfg, maxd) ==
    IF num_dims < 3 THEN [count |-> -1, dets |-> <<>>]
    ELSE
      LET channels == shape[2]
          num_boxes == shape[3]
          num_classes == channels - 4
      IN  IF num_classes <= 0 THEN [count |-> -1, dets |-> <<>>]
          ELSE LET d == V8Loop(output, num_boxes, num_classes, cfg, maxd, 0, <<>>)
               IN  [count |-> Len(d), dets |-> d]

(***************************************************************************)
(* decode_yolov10.  Tensor [1, num_boxes, 6], rows x1, y1, x2, y2, score,  *)
(* class id: corner boxes, copied.                                         *)
(***************************************************************************)
RECURSIVE V10Loop(_, _, _, _, _, _, _)
V10Loop(output, num_boxes, box_size, cfg, maxd, i, dets) ==
    IF ~(i < num_boxes /\ Len(dets) < maxd) THEN dets
    ELSE
      LET base == i * box_size
          score == At(output, base + 4)
      IN  IF BelowThreshold(score, cfg.conf_threshold)
          THEN V10Loop(output, num_boxes, box_size, cfg, maxd, i + 1, dets)
          ELSE V10Loop(output, num_boxes, box_size, cfg, maxd, i + 1,
                       Append(dets, [x1 |-> At(output, base), y1 |-> At(output, base + 1),
                                     x2 |-> At(output, base + 2), y2 |-> At(output, base + 3),
                                     score |-> score,
                                     class_id |-> FloatToInt(At(output, base + 5))]))

decode_yolov10(output, shape, num_dims, cfg, maxd) ==
    IF num_dims < 3 THEN [count |-> -1, dets |-> <<>>]
    ELSE
      LET num_boxes == shape[2]
          box_size == shape[3]
      IN  IF box_size < 6 THEN [count |-> -1, dets |-> <<>>]
          ELSE LET d == V10Loop(output, num_boxes, box_size, cfg, maxd, 0, <<>>)
               IN  [count |-> Len(d), dets |-> d]

(***************************************************************************)
(* yolo_detect_version: the version guessed from the output shape.         *)
(***************************************************************************)
\* the alternative that tests the per-scale grid sizes before the generic
\* [boxes, values] layout
DetectGridSizesFirst(shape, num_dims, num_classes) ==
    IF num_dims < 2 THEN YOLO_VERSION_AUTO
    ELSE
      LET dim1 == IF num_dims >= 2 THEN shape[2] ELSE 0
          dim2 == IF num_dims >= 3 THEN shape[3] ELSE 0
      IN  IF dim1 = 300 /\ dim2 = 6 THEN YOLO_VERSION_V10
          ELSE IF dim2 = 8400 /\ dim1 = 4 + num_classes THEN YOLO_VERSION_V8
          ELSE IF dim1 = 25200 \/ dim1 = 18900 \/ dim1 = 6300 THEN YOLO_VERSION_V5
          ELSE IF dim1 < 100 /\ dim2 > 1000 THEN YOLO_VERSION_V8
          ELSE IF dim1 = 507 \/ dim1 = 2028 \/ dim1 = 8112 THEN YOLO_VERSION_V4
          ELSE IF dim1 > 1000 /\ dim2 < 100 THEN YOLO_VERSION_V5
          ELSE YOLO_VERSION_AUTO
yolo_detect_version(shape, num_dims, num_classes) ==
    IF num_dims < 2 THEN YOLO_VERSION_AUTO
    ELSE
      LET dim1 == IF num_dims >= 2 THEN shape[2] ELSE 0
          dim2 == IF num_dims >= 3 THEN shape[3] ELSE 0
      IN  IF dim1 = 300 /\ dim2 = 6 THEN YOLO_VERSION_V10
          ELSE IF dim2 = 8400 /\ dim1 = 4 + num_classes THEN YOLO_VERSION_V8
          ELSE IF dim1 = 25200 \/ dim1 = 18900 \/ dim1 = 6300 THEN YOLO_VERSION_V5
          ELSE IF dim1 < 100 /\ dim2 > 1000 THEN YOLO_VERSION_V8
          ELSE IF dim1 > 1000 /\ dim2 < 100 THEN YOLO_VERSION_V5
          ELSE IF dim1 = 507 \/ dim1 = 2028 \/ dim1 = 8112 THEN YOLO_VERSION_V4
          ELSE YOLO_VERSION_AUTO

(***************************************************************************)
(* yolo_decode: resolve the version, run its decoder, then NMS (not for    *)
(* V10), then the max_detections cap.  The set of possible results         *)
(* [count, dets]: the sort inside yolo_nms may order equal scores either   *)
(* way.                                                                    *)
(***************************************************************************)
ResolveVersion(shape, num_dims, cfg) ==
    IF cfg.version = YOLO_VERSION_AUTO
    THEN yolo_detect_version(shape, num_dims, cfg.num_classes)
    ELSE cfg.version

\* lines 264-282: the switch on the resolved version
\* the alternative without a fallback decoder
DispatchStrict(version, output, shape, num_dims, cfg, maxd) ==
    CASE version = YOLO_VERSION_V4 -> decode_yolov4(output, shape, num_dims, cfg, maxd)
      [] version = YOLO_VERSION_V5 -> decode_yolov5(output, shape, num_dims, cfg, maxd)
      [] version = YOLO_VERSION_V8 -> decode_yolov8(output, shape, num_dims, cfg, maxd)
      [] version = YOLO_VERSION_V10 -> decode_yolov10(output, shape, num_dims, cfg, maxd)
      [] OTHER -> [count |-> -1, dets |-> <<>>]
DispatchDecoder(version, output, shape, num_dims, cfg, maxd) ==
    CASE version = YOLO_VERSION_V4 -> decode_yolov4(output, shape, num_dims, cfg, maxd)
      [] version = YOLO_VERSION_V5 -> decode_yolov5(output, shape, num_dims, cfg, maxd)
      [] version = YOLO_VERSION_V8 -> decode_yolov8(output, shape, num_dims, cfg, maxd)
      [] version = YOLO_VERSION_V10 -> decode_yolov10(output, shape, num_dims, cfg, maxd)
      [] OTHER -> decode_yolov5(output, shape, num_dims, cfg, maxd)

\* the alternative that sends every version through yolo_nms
AppliesNmsAlways(version) == TRUE

\* line 287: NMS for every version but V10
AppliesNms(version) == version # YOLO_VERSION_V10

\* lines 291-294: count limited to config->max_detections
LimitCount(count, cfg) ==
    IF count > cfg.max_detections THEN cfg.max_detections ELSE count

\* what the caller sees: the return value and detections[0..return value)
Returned(count, dets) == [count |-> count, dets |-> SubSeq(dets, 1, count)]

yolo_decode(output, shape, num_dims, cfg, maxd) ==
    IF maxd <= 0 THEN {Returned(-1, <<>>)}
    ELSE
      LET version == ResolveVersion(shape, num_dims, cfg)
          dec == DispatchDecoder(version, output, shape, num_dims, cfg, maxd)
      IN  IF dec.count <= 0 THEN {Returned(dec.count, <<>>)}
          ELSE IF AppliesNms(version)
          THEN { Returned(LimitCount(Len(kept), cfg), kept) :
                   kept \in yolo_nms(dec.dets, cfg.nms_threshold) }
          ELSE {Returned(LimitCount(dec.count, cfg), dec.dets)}

(***************************************************************************)
(* Detection lists for yolo_nms.  Four boxes on one row of the image, in   *)
(* tenths of a pixel, whose pairwise IoUs are 1/2 (A, B), 5/16 (A, C and   *)
(* A, D), 5/8 (B, C and B, D) and 1/4 (C, D), so that thresholds of 0.4    *)
(* (the default of cira_create) and 0.5 separate them.  Each box comes     *)
(* with one or two scores and in both classes.  A list is drawn in a fixed *)
(* order of its elements: yolo_nms sorts first, and QsortOutcomes does not *)
(* depend on the order of its argument.                                    *)
(***************************************************************************)
MaxDets == 4

BoxA == [x1 |-> 0, y1 |-> 0, x2 |-> 160, y2 |-> 40]
BoxB == [x1 |-> 0, y1 |-> 0, x2 |-> 80, y2 |-> 40]
BoxC == [x1 |-> 0, y1 |-> 0, x2 |-> 50, y2 |-> 40]
BoxD == [x1 |-> 30, y1 |-> 0, x2 |-> 80, y2 |-> 40]

NmsBoxScores == { <<BoxA, 9>>, <<BoxB, 7>>, <<BoxB, 9>>,
                  <<BoxC, 5>>, <<BoxC, 7>>, <<BoxD, 5>> }
NmsClasses == {0, 1}
NmsThresholds == {4, 5}

Det(b, score, class_id) ==
    [x1 |-> b.x1, y1 |-> b.y1, x2 |-> b.x2, y2 |-> b.y2,
     score |-> score, class_id |-> class_id]

NmsPool == { Det(bs[1], bs[2], c) : bs \in NmsBoxScores, c \in NmsClasses }

\* an injective key on NmsPool, used to draw each multiset once
PoolKey(d) == ((d.x1 * 1000 + d.x2) * 100 + d.score) * 10 + d.class_id

RECURSIVE OrderedLists(_)
OrderedLists(n) ==
    IF n = 0 THEN {<<>>}
    ELSE UNION { { Append(l, d) :
                     d \in { e \in NmsPool :
                               Len(l) = 0 \/ PoolKey(e) >= PoolKey(l[Len(l)]) } } :
                 l \in OrderedLists(n - 1) }

NmsInputs == UNION { OrderedLists(n) : n \in 0..MaxDets }

\* the detections of a list as a multiset: how often d occurs in it
Count(dets, d) == Cardinality({ i \in 1..Len(dets) : dets[i] = d })

Range(dets) == { dets[i] : i \in 1..Len(dets) }

SameBag(a, b) == \A d \in Range(a) \cup Range(b) : Count(a, d) = Count(b, d)

(***************************************************************************)
(* The context: result codes and status values of cira.h, the threads, and *)
(* the state of a context on which no thread runs.                         *)
(***************************************************************************)
CIRA_OK == 0
CIRA_ERROR == -1
CIRA_ERROR_FILE == -2
CIRA_ERROR_MODEL == -3
CIRA_ERROR_MEMORY == -4
CIRA_ERROR_INPUT == -5

CIRA_STATUS_READY == 0
CIRA_STATUS_LOADING == 1
CIRA_STATUS_ERROR == 2

CIRA_FORMAT_UNKNOWN == "UNKNOWN"
CIRA_FORMAT_ONNX == "ONNX"

\* the capture thread, a caller of the C API, a connection thread of the
\* HTTP server
Threads == {"cam", "api", "http"}

NoCall == [active |-> FALSE, channels |-> 0, prior_err |-> FALSE, loaded |-> FALSE,
           backend_failed |-> FALSE, ret |-> CIRA_OK]

\* cira_create: the context before any thread touches it
CreatedContext ==
    /\ status = CIRA_STATUS_READY
    /\ format = CIRA_FORMAT_UNKNOWN
    /\ model_handle = 0
    /\ freed = {}
    /\ nloads = 0
    /\ model_mutex = "none"
    /\ result_mutex = "none"
    /\ frame_mutex = "none"
    /\ frame_buffer = 0
    /\ frame_w = 0
    /\ frame_h = 0
    /\ using = [t \in Threads |-> 0]
    /\ sframe = [frame |-> 0, w |-> 0, h |-> 0]
    /\ call = NoCall
    /\ last = NoCall
    /\ err_since_load = FALSE
    /\ load_ret = [returned |-> FALSE, ret |-> CIRA_OK, status |-> CIRA_STATUS_READY]

NoRuntime ==
    /\ CreatedContext
    /\ pc = [t \in Threads |-> "off"]

\* no backend predict call
NoBackend ==
    /\ backend = "none"
    /\ outs = <<>>
    /\ yver = YOLO_VERSION_AUTO
    /\ img = [w |-> 0, h |-> 0]
    /\ published = <<>>
    /\ bret = CIRA_OK
    /\ bpc = "off"

\* no shape to classify
NoShape ==
    /\ dshape = <<>>
    /\ dnc = 0
    /\ detected = YOLO_VERSION_AUTO
    /\ dfl_in = [input_w |-> 0, input_h |-> 0, box_idx |-> 0]
    /\ dfl_cell = [scale |-> -1]
    /\ spc = "off"

\* no IoU evaluation
NoIou ==
    /\ ia = [x1 |-> 0, y1 |-> 0, x2 |-> 0, y2 |-> 0]
    /\ ib = [x1 |-> 0, y1 |-> 0, x2 |-> 0, y2 |-> 0]
    /\ ires = <<>>
    /\ ipc = "off"

\* cira_create (calloc) and the static initializer of g_server; no API
\* call permitted
NoServer ==
    /\ server_running = 0
    /\ g_server = "NULL"
    /\ daemon = "none"
    /\ ctx_live = FALSE
    /\ srv_calls = [starts |-> 0, started_ok |-> FALSE, stopped_ok |-> FALSE]
    /\ handled = [total |-> 0, after_stop |-> 0, after_destroy |-> 0]

\* no MJPEG connection
NoStream ==
    /\ sctx = [jpeg_data |-> 0, jpeg_size |-> 0, jpeg_offset |-> 0, header_sent |-> 0,
               frame_sent |-> 0]
    /\ wire = <<>>
    /\ sizes = <<>>
    /\ cb = [calls |-> -1, max |-> 0, ret |-> 0]

\* the threads of the streaming runtime: the capture thread, an MHD
\* connection thread and the caller of cira_predict_image
HttpThreads == {"http"}

ShareThreads == {"cam", "api"} \cup HttpThreads

Mutexes == {"g_jpeg_mutex", "result_mutex", "frame_mutex", "frame_file_mutex", "model_mutex"}

\* cira_create and the static initializers of jpeg_encoder.cpp
CreatedShare ==
    /\ mtx = [m \in Mutexes |-> "none"]
    /\ top = [t \in ShareThreads |-> [op |-> "none", ann |-> FALSE]]
    /\ g_jpeg_buffer = "empty"
    /\ copied = [t \in ShareThreads |-> "none"]
    /\ det_list = [gen |-> 0, count |-> 0, partial |-> FALSE]
    /\ result_json = [gen |-> 0, count |-> 0]
    /\ frame_file = FALSE
    /\ seen_partial = FALSE

\* no thread runs
NoShare ==
    /\ CreatedShare
    /\ tpc = [t \in ShareThreads |-> "off"]

\* the callers of camera_start and camera_stop: the API caller and two MHD
\* connection threads serving POST /api/camera/start and /api/camera/stop
CamCallers == {"api", "http1", "http2"}

\* cira_create and the static initializer of g_capture
CreatedCamera ==
    /\ camera_running = 0
    /\ g_capture = 0
    /\ captures = {}
    /\ cam_threads = {}
    /\ camera_thread = 0
    /\ ncap = 0

\* no caller
NoCamera ==
    /\ CreatedCamera
    /\ cpc = [t \in CamCallers |-> "off"]

NoHost ==
    /\ NoIou
    /\ NoServer
    /\ NoStream
    /\ NoShare
    /\ NoCamera

NoFusion ==
    /\ fts = <<>>
    /\ fidx = 0
    /\ fcat = <<>>
    /\ fout = <<>>
    /\ fpc = "off"

NoDecode ==
    /\ tensor = [data |-> <<>>, shape |-> <<>>]
    /\ config = [version |-> YOLO_VERSION_AUTO]
    /\ max_dets = 0
    /\ result = [count |-> 0, dets |-> <<>>]
    /\ dpc = "off"

InitNms ==
    /\ NoHost
    /\ nin \in NmsInputs
    /\ nthr \in NmsThresholds
    /\ nout = <<>>
    /\ nout2 = <<>>
    /\ nthr2 = nthr
    /\ nhi = <<>>
    /\ npc = "in"
    /\ NoDecode
    /\ NoFusion
    /\ NoRuntime
    /\ NoBackend
    /\ NoShape

\* count = yolo_nms(detections, count, nthr)
NmsFirst ==
    /\ npc = "in"
    /\ nout' \in yolo_nms(nin, nthr)
    /\ npc' = "once"
    /\ UNCHANGED <<nin, nthr, nout2, nthr2, nhi, decodeVars, fusionVars, runtimeVars, backendVars, shapeVars, hostVars>>

\* the same call again, on the array the first call left
NmsAgain ==
    /\ npc = "once"
    /\ nout2' \in yolo_nms(nout, nthr)
    /\ npc' = "twice"
    /\ UNCHANGED <<nin, nthr, nout, nthr2, nhi, decodeVars, fusionVars, runtimeVars, backendVars, shapeVars, hostVars>>

\* yolo_nms on a copy of the first call's input, with a threshold no lower
NmsHigher ==
    /\ npc = "once"
    /\ \E t \in { u \in NmsThresholds : u >= nthr } :
         /\ nthr2' = t
         /\ nhi' \in yolo_nms(nin, t)
    /\ npc' = "higher"
    /\ UNCHANGED <<nin, nthr, nout, nout2, decodeVars, fusionVars, runtimeVars, backendVars, shapeVars, hostVars>>

NextNms == NmsFirst \/ NmsAgain \/ NmsHigher

SpecNms == InitNms /\ [][NextNms]_vars

\* C2: yolo_nms only drops detections, and drops one only if a detection it
\* keeps has the same class_id, a score at least as high and an IoU with it
\* above nms_threshold; a detection that no other detection of its own class
\* overlaps above the threshold is kept, whatever the other classes hold.
C2_NmsSafety ==
    npc = "once" =>
      /\ \A d \in Range(nout) : Count(nout, d) <= Count(nin, d)
      /\ \A d \in Range(nin) :
           Count(nout, d) < Count(nin, d) =>
             \E k \in Range(nout) :
               /\ k.class_id = d.class_id
               /\ k.score >= d.score
               /\ LET r == iou(k, d) IN r.num * One > nthr * r.den
      /\ \A i \in 1..Len(nin) :
           (\A j \in 1..Len(nin) :
              (j # i /\ nin[j].class_id = nin[i].class_id) =>
                LET r == iou(nin[i], nin[j]) IN ~(r.num * One > nthr * r.den))
           => Count(nout, nin[i]) = Count(nin, nin[i])

\* a call that dropped a detection and kept two detections of different
\* classes that overlap above the threshold
C2_Witness ==
    /\ npc = "once"
    /\ Len(nout) < Len(nin)
    /\ \E a \in Range(nout) : \E b \in Range(nout) :
         /\ a.class_id # b.class_id
         /\ LET r == iou(a, b) IN r.num * One > nthr * r.den

\* C3: yolo_nms applied to its own output, with the same threshold, returns
\* the same detections.
C3_NmsIdempotent ==
    npc = "twice" => Len(nout2) = Len(nout) /\ SameBag(nout2, nout)

\* a second call on the output of a call that dropped something and kept
\* at least two detections
C3_Witness ==
    /\ npc = "twice"
    /\ Len(nout) < Len(nin)
    /\ Len(nout) >= 2

\* C4 as stated: with t1 <= t2, yolo_nms at t2 drops no more detections
\* than yolo_nms at t1.
C4_SuppressedCountMonotone ==
    npc = "higher" => Len(nin) - Len(nhi) <= Len(nin) - Len(nout)

\* C4: with t1 <= t2, a detection dropped at t2 has in the input another
\* detection of its class, scored at least as high, whose IoU with it is
\* above t2 and so above t1; and when the call at t1 drops nothing, the call
\* at t2 drops nothing.  The number dropped may grow with the threshold.
C4_HigherThresholdDropsOnlyOverlapped ==
    npc = "higher" =>
      /\ \A i \in 1..Len(nin) :
           Count(nhi, nin[i]) < Count(nin, nin[i]) =>
             \E j \in 1..Len(nin) :
               /\ j # i
               /\ nin[j].class_id = nin[i].class_id
               /\ nin[j].score >= nin[i].score
               /\ LET r == iou(nin[i], nin[j])
                  IN  r.num * One > nthr2 * r.den /\ r.num * One > nthr * r.den
      /\ Len(nout) = Len(nin) => Len(nhi) = Len(nin)

\* a strictly higher threshold under which more detections are dropped
C4_Witness ==
    /\ npc = "higher"
    /\ nthr2 > nthr
    /\ Len(nhi) < Len(nout)

(***************************************************************************)
(* Tensors for yolo_decode.  The context a model runs in has a 416 x 416   *)
(* input (cira_create), two classes, conf_threshold 0.5 and nms_threshold  *)
(* 0.4.  Values are in tenths: a pixel coordinate of 208 is 2080.          *)
(*                                                                         *)
(* A V4/V5 row is cx, cy, w, h, obj, p0, p1; a V8 box holds cx, cy, w, h,  *)
(* s0, s1 and is stored transposed; a V10 row is x1, y1, x2, y2, score,    *)
(* class.                                                                  *)
(***************************************************************************)
MaxBoxes == 3
MaxKeep == 2
MaxCap == 3

InputSize == 416
NumClasses == 2
ConfThreshold == 5
NmsThreshold == 4

RowPoolV5 ==
    { <<5, 5, 2, 2, 9, 10, 0>>,               \* normalized, centre of the image
      <<2100, 2080, 840, 840, 8, 10, 0>>,     \* pixels, overlaps the first
      <<2100, 2080, 840, 840, 8, 0, 10>>,     \* the same box, class 1
      <<100, 100, 400, 400, 9, 10, 0>>,       \* pixels, centred 10 px from the corner
      <<3000, 1000, 200, 200, 3, 10, 0>>,     \* objectness below the threshold
      <<3000, 1000, 200, 200, 25, -20, 15>>,  \* logits
      <<1000, 3000, 200, 200, 5, 10, 0>> }    \* score equal to the threshold

BoxPoolV8 ==
    { <<5, 5, 2, 2, 9, 0>>,
      <<2100, 2080, 840, 840, 8, 0>>,
      <<2100, 2080, 840, 840, 0, 8>>,
      <<100, 100, 400, 400, 9, 0>>,
      <<3000, 1000, 200, 200, 3, 2>>,
      <<3000, 1000, 200, 200, -20, 15>>,
      <<1000, 3000, 200, 200, 5, 0>> }

RowPoolV10 ==
    { <<100, 100, 500, 500, 9, 30>>,          \* [10,10,50,50,0.9,3]
      <<100, 100, 500, 500, 8, 30>>,          \* the same box and class again
      <<-50, 100, 300, 500, 7, 0>>,           \* starts left of the image
      <<2000, 2000, 3000, 3000, 3, 10>>,      \* score below the threshold
      <<2000, 2000, 3000, 3000, 6, 15>>,      \* class value 1.5
      <<3000, 100, 3500, 500, 5, 10>> }       \* score equal to the threshold

RECURSIVE Flatten(_)
Flatten(rows) == IF rows = <<>> THEN <<>> ELSE Head(rows) \o Flatten(Tail(rows))

Lists(pool, maxLen) == UNION { [1..n -> pool] : n \in 0..maxLen }

\* row-major [1, n, width]
RowTensor(rows, width) ==
    [data |-> Flatten(rows), shape |-> <<1, Len(rows), width>>]

\* [1, channels, n]: channel k of box i at k * n + i
TransposedTensor(boxes, channels) ==
    LET n == Len(boxes)
    IN  [data |-> [idx \in 1..(channels * n) |->
                     boxes[((idx - 1) % n) + 1][((idx - 1) \div n) + 1]],
         shape |-> <<1, channels, n>>]

\* the tensors a model exported for `version` produces
\* one box of a raw DFL head, [1, 64 + classes, 1]: the distances sit in
\* bins 2, 2, 15 and 15, the class scores are 0 and 0.9
DflChannels ==
    [k \in 1..(64 + NumClasses) |->
       IF k = 3 \/ k = 16 + 3 \/ k = 32 + 16 \/ k = 48 + 16 THEN 500
       ELSE IF k = 64 + NumClasses THEN 9 ELSE 0]

\* V8-style tensors whose channel count is not 4 + num_classes
OtherChannelTensors ==
    { [data |-> <<5, 5, 2, 2, 9>>, shape |-> <<1, 5, 1>>],
      [data |-> <<5, 5, 2, 2, 0, 0, 9>>, shape |-> <<1, 7, 1>>],
      [data |-> <<5, 5, 2, 2>>, shape |-> <<1, 4, 1>>],
      [data |-> <<5, 5, 2, 2, 9, 0>>, shape |-> <<6, 1>>],
      [data |-> DflChannels, shape |-> <<1, 64 + NumClasses, 1>>] }

TensorsOf(version) ==
    IF version = YOLO_VERSION_V10
    THEN { RowTensor(r, 6) : r \in Lists(RowPoolV10, MaxBoxes) }
    ELSE IF version = YOLO_VERSION_V8
    THEN { TransposedTensor(b, 4 + NumClasses) : b \in Lists(BoxPoolV8, MaxBoxes) }
         \cup OtherChannelTensors
    ELSE { RowTensor(r, 5 + NumClasses) : r \in Lists(RowPoolV5, MaxBoxes) }

Config(version, max_detections) ==
    [version |-> version, input_w |-> InputSize, input_h |-> InputSize,
     num_classes |-> NumClasses, conf_threshold |-> ConfThreshold,
     nms_threshold |-> NmsThreshold, max_detections |-> max_detections]

NoNms ==
    /\ nin = <<>>
    /\ nthr = 0
    /\ nout = <<>>
    /\ nout2 = <<>>
    /\ nthr2 = 0
    /\ nhi = <<>>
    /\ npc = "off"

InitDecode ==
    /\ NoHost
    /\ \E version \in Versions :
         /\ \E layout \in (IF version = YOLO_VERSION_AUTO THEN Versions ELSE {version}) :
              tensor \in TensorsOf(layout)
         /\ \E k \in 1..MaxKeep : config = Config(version, k)
    /\ max_dets \in 1..MaxCap
    /\ result = [count |-> 0, dets |-> <<>>]
    /\ dpc = "ready"
    /\ NoNms
    /\ NoFusion
    /\ NoRuntime
    /\ NoBackend
    /\ NoShape

\* count = yolo_decode(output, output_shape, 3, &config, detections, max_dets)
Decode ==
    /\ dpc = "ready"
    /\ result' \in yolo_decode(tensor.data, tensor.shape, Len(tensor.shape), config, max_dets)
    /\ dpc' = "decoded"
    /\ UNCHANGED <<tensor, config, max_dets, nmsVars, fusionVars, runtimeVars, backendVars, shapeVars, hostVars>>

NextDecode == Decode

SpecDecode == InitDecode /\ [][NextDecode]_vars

\* the version yolo_decode decodes the tensor as
DecodedVersion == ResolveVersion(tensor.shape, Len(tensor.shape), config)

\* C1 as stated: every detection that comes out of a decoder lies inside the
\* model input, 0 <= x1 <= x2 <= input_w and 0 <= y1 <= y2 <= input_h.
C1_ClampInvariant ==
    dpc = "decoded" =>
      \A k \in 1..Len(result.dets) :
        LET d == result.dets[k]
        IN  /\ 0 <= d.x1 /\ d.x1 <= d.x2 /\ d.x2 <= config.input_w * One
            /\ 0 <= d.y1 /\ d.y1 <= d.y2 /\ d.y2 <= config.input_h * One

\* every candidate of the tensor: what the decoder finds when the caller's
\* array has room for all boxes
AllCandidates ==
    DispatchDecoder(DecodedVersion, tensor.data, tensor.shape, Len(tensor.shape),
                    config, Len(tensor.data) + 1)

\* C5 as stated: for a version other than V10, yolo_decode returns the NMS
\* of all candidates of the tensor that pass the confidence threshold, cut to
\* the max_detections highest-scoring survivors.  Stated for callers whose
\* array holds at least max_detections entries, as ncnn_predict's does.
C5_NmsOverAllCandidates ==
    (/\ dpc = "decoded"
     /\ DecodedVersion # YOLO_VERSION_V10
     /\ result.count >= 0
     /\ max_dets >= config.max_detections) =>
      /\ result.count <= config.max_detections
      /\ \E kept \in yolo_nms(AllCandidates.dets, config.nms_threshold) :
           result.dets = SubSeq(kept, 1, Min(Len(kept), config.max_detections))

\* row i (from 0) of a row-major tensor
TensorRow(i) == SubSeq(tensor.data, i * tensor.shape[3] + 1, (i + 1) * tensor.shape[3])

\* the rows of a V10 tensor whose score is not below conf_threshold, in order
PassingRows ==
    SelectSeq([i \in 1..tensor.shape[2] |-> TensorRow(i - 1)],
              LAMBDA r : ~(r[5] < config.conf_threshold))

\* C6 as stated: for V10 the result is exactly the rows that pass
\* conf_threshold, all six fields copied unchanged, with no NMS.
C6_V10AllPassingRowsUnchanged ==
    (dpc = "decoded" /\ DecodedVersion = YOLO_VERSION_V10) =>
      /\ Len(result.dets) = Len(PassingRows)
      /\ \A k \in 1..Len(result.dets) :
           /\ result.dets[k].x1 = PassingRows[k][1]
           /\ result.dets[k].y1 = PassingRows[k][2]
           /\ result.dets[k].x2 = PassingRows[k][3]
           /\ result.dets[k].y2 = PassingRows[k][4]
           /\ result.dets[k].score = PassingRows[k][5]
           /\ result.dets[k].class_id * One = PassingRows[k][6]

\* C6: for V10 the result is, in tensor order, the first
\* min(max_dets, max_detections) rows whose score is not below
\* conf_threshold, with x1, y1, x2, y2 and score copied and class_id the
\* class value cut to an integer; no row is dropped for overlapping another.
C6_V10FirstPassingRows ==
    (dpc = "decoded" /\ DecodedVersion = YOLO_VERSION_V10) =>
      /\ result.count = Min(Len(PassingRows), Min(max_dets, config.max_detections))
      /\ Len(result.dets) = result.count
      /\ \A k \in 1..Len(result.dets) :
           /\ result.dets[k].x1 = PassingRows[k][1]
           /\ result.dets[k].y1 = PassingRows[k][2]
           /\ result.dets[k].x2 = PassingRows[k][3]
           /\ result.dets[k].y2 = PassingRows[k][4]
           /\ result.dets[k].score = PassingRows[k][5]
           /\ result.dets[k].class_id * One <= PassingRows[k][6]
           /\ PassingRows[k][6] < (result.dets[k].class_id + 1) * One

\* a V10 result holding two detections of one class with the same box
C6_Witness ==
    /\ dpc = "decoded"
    /\ DecodedVersion = YOLO_VERSION_V10
    /\ \E i \in 1..Len(result.dets) : \E j \in 1..Len(result.dets) :
         /\ i < j
         /\ result.dets[i].class_id = result.dets[j].class_id
         /\ LET r == iou(result.dets[i], result.dets[j]) IN r.num = r.den

(***************************************************************************)
(* A model with one output tensor per scale, decoded the way section 4.5   *)
(* of the specification describes the caller: yolo_decode on each tensor   *)
(* with the same config, the results concatenated, then one yolo_nms over  *)
(* the concatenation.  The backends in the source do not take this path:   *)
(* onnx_predict decodes each output inline and ncnn_predict concatenates   *)
(* the raw tensors before its single yolo_decode call.                     *)
(*                                                                         *)
(* The rows are pixel boxes of class 0 on one line: P (scored 0.8) and Q   *)
(* (0.7) overlap with IoU 7/13, R (0.9) overlaps P with IoU 6/14 and Q     *)
(* with IoU 3/17, and S (0.9) is far from all of them.                     *)
(***************************************************************************)
MaxScales == 3
ScaleBoxes == 2

RowPoolScale ==
    { <<900, 1000, 1000, 400, 8, 10, 0>>,
      <<1200, 1000, 1000, 400, 7, 10, 0>>,
      <<500, 1000, 1000, 400, 9, 10, 0>>,
      <<3000, 3000, 400, 400, 9, 10, 0>> }

ScaleTensors == { RowTensor(r, 5 + NumClasses) : r \in Lists(RowPoolScale, ScaleBoxes) }

InitFusion ==
    /\ NoHost
    /\ \E n \in 2..MaxScales : fts \in [1..n -> ScaleTensors]
    /\ fidx = 1
    /\ fcat = <<>>
    /\ fout = <<>>
    /\ fpc = "decoding"
    /\ tensor = [data |-> <<>>, shape |-> <<>>]
    /\ config = Config(YOLO_VERSION_V5, ScaleBoxes)
    /\ max_dets = ScaleBoxes
    /\ result = [count |-> 0, dets |-> <<>>]
    /\ dpc = "off"
    /\ NoNms
    /\ NoRuntime
    /\ NoBackend
    /\ NoShape

\* decode the next tensor and append what it returned
FuseDecode ==
    /\ fpc = "decoding"
    /\ fidx <= Len(fts)
    /\ \E r \in yolo_decode(fts[fidx].data, fts[fidx].shape, Len(fts[fidx].shape),
                            config, max_dets) :
         fcat' = IF r.count > 0 THEN fcat \o r.dets ELSE fcat
    /\ fidx' = fidx + 1
    /\ UNCHANGED <<fts, fout, fpc, decodeVars, nmsVars, runtimeVars, backendVars, shapeVars, hostVars>>

\* the one final NMS pass over the concatenation
FuseFinalNms ==
    /\ fpc = "decoding"
    /\ fidx > Len(fts)
    /\ fout' \in yolo_nms(fcat, config.nms_threshold)
    /\ fpc' = "fused"
    /\ UNCHANGED <<fts, fidx, fcat, decodeVars, nmsVars, runtimeVars, backendVars, shapeVars, hostVars>>

NextFusion == FuseDecode \/ FuseFinalNms

SpecFusion == InitFusion /\ [][NextFusion]_vars

\* the thresholded candidates of tensors k..n, concatenated
RECURSIVE UnionCandidates(_)
UnionCandidates(k) ==
    IF k > Len(fts) THEN <<>>
    ELSE LET dec == decode_yolov5(fts[k].data, fts[k].shape, Len(fts[k].shape),
                                  config, Len(fts[k].data) + 1)
         IN  (IF dec.count > 0 THEN dec.dets ELSE <<>>) \o UnionCandidates(k + 1)

MaxLoads == 2

\* the size of the frames the capture device delivers
FrameWidth == 640
FrameHeight == 480

\* never assigned anywhere in the source: the context is calloc'ed
model_swapping == FALSE

hostedVars == <<decodeVars, nmsVars, fusionVars, backendVars, shapeVars, hostVars>>
otherVars == <<hostedVars, load_ret>>

InitRuntime ==
    /\ NoHost
    /\ CreatedContext
    /\ pc = [t \in Threads |-> "idle"]
    /\ NoDecode
    /\ NoNms
    /\ NoFusion
    /\ NoBackend
    /\ NoShape

\* cira_set_error: the message is stored and the status becomes ERROR
cira_set_error == status' = CIRA_STATUS_ERROR

\* ---- cira_load, called by the API caller or by handle_model_load ----

\* how a load can go: detect_format does not know the path, the backend
\* loads the model, the backend fails after cira_set_error (no .onnx file,
\* no memory), the backend fails without it (session creation)
LoadKinds == {"unknown_format", "ok", "fail_set_error", "fail_silent"}

\* cira.c line 493
LoadBegin(t) ==
    /\ pc[t] = "idle"
    /\ nloads < MaxLoads
    /\ nloads' = nloads + 1
    /\ status' = CIRA_STATUS_LOADING
    /\ pc' = [pc EXCEPT ![t] = "l_unload"]
    /\ err_since_load' = FALSE
    /\ call' = [call EXCEPT !.prior_err = FALSE]
    /\ UNCHANGED <<format, model_handle, freed, model_mutex, result_mutex, frame_mutex,
                   frame_buffer, frame_w, frame_h, using, sframe, last, otherVars>>

\* cira.c lines 496-522: the loaded model is freed by its backend's unload
LoadUnload(t) ==
    /\ pc[t] = "l_unload"
    /\ IF format # CIRA_FORMAT_UNKNOWN
       THEN /\ freed' = IF model_handle # 0 THEN freed \cup {model_handle} ELSE freed
            /\ format' = CIRA_FORMAT_UNKNOWN
            /\ model_handle' = 0
       ELSE UNCHANGED <<freed, format, model_handle>>
    /\ pc' = [pc EXCEPT ![t] = "l_dispatch"]
    /\ UNCHANGED <<status, nloads, model_mutex, result_mutex, frame_mutex, frame_buffer,
                   frame_w, frame_h, using, sframe, call, last, err_since_load, otherVars>>

\* cira_load returns ret
LoadReturn(ret) == load_ret' = [returned |-> TRUE, ret |-> ret, status |-> status']

\* cira.c lines 524-585
LoadDispatch(t) ==
    /\ pc[t] = "l_dispatch"
    /\ \E kind \in LoadKinds :
         CASE kind = "unknown_format" ->
                /\ cira_set_error
                /\ LoadReturn(CIRA_ERROR_MODEL)
                /\ UNCHANGED <<format, model_handle>>
           [] kind = "ok" ->
                /\ model_handle' = nloads
                /\ format' = CIRA_FORMAT_ONNX
                /\ status' = CIRA_STATUS_READY
                /\ LoadReturn(CIRA_OK)
           [] kind = "fail_set_error" ->
                /\ cira_set_error
                /\ LoadReturn(CIRA_ERROR_FILE)
                /\ UNCHANGED <<format, model_handle>>
           [] kind = "fail_silent" ->
                /\ UNCHANGED <<status, format, model_handle>>
                /\ LoadReturn(CIRA_ERROR_MODEL)
    /\ pc' = [pc EXCEPT ![t] = "idle"]
    /\ UNCHANGED <<freed, nloads, model_mutex, result_mutex, frame_mutex, frame_buffer,
                   frame_w, frame_h, using, sframe, call, last, err_since_load, hostedVars>>

\* ---- cira_predict_image, called by the API caller ----

\* the call returns ret
Return(c, ret) ==
    /\ last' = [c EXCEPT !.ret = ret, !.active = TRUE]
    /\ call' = NoCall
    /\ err_since_load' = IF ret # CIRA_OK THEN TRUE ELSE err_since_load

\* cira.c lines 589-598: the checks before the lock
PredictEnter ==
    /\ pc["api"] = "idle"
    /\ \E channels \in {3, 4} :
         LET c == [active |-> TRUE, channels |-> channels, prior_err |-> err_since_load,
                   loaded |-> (format # CIRA_FORMAT_UNKNOWN /\ model_handle # 0),
                   backend_failed |-> FALSE, ret |-> CIRA_OK]
         IN  IF status # CIRA_STATUS_READY
             THEN /\ Return(c, CIRA_ERROR)
                  /\ UNCHANGED <<status, pc>>
             ELSE IF channels # 3
             THEN /\ cira_set_error
                  /\ Return(c, CIRA_ERROR_INPUT)
                  /\ UNCHANGED pc
             ELSE IF format = CIRA_FORMAT_UNKNOWN \/ model_handle = 0
             THEN /\ cira_set_error
                  /\ Return(c, CIRA_ERROR_MODEL)
                  /\ UNCHANGED pc
             ELSE /\ call' = c
                  /\ pc' = [pc EXCEPT !["api"] = "p_lock"]
                  /\ UNCHANGED <<status, last, err_since_load>>
    /\ UNCHANGED <<format, model_handle, freed, nloads, model_mutex, result_mutex,
                   frame_mutex, frame_buffer, frame_w, frame_h, using, sframe, otherVars>>

\* cira.c line 600
PredictLock ==
    /\ pc["api"] = "p_lock"
    /\ result_mutex = "none"
    /\ result_mutex' = "api"
    /\ pc' = [pc EXCEPT !["api"] = "p_backend"]
    /\ UNCHANGED <<status, format, model_handle, freed, nloads, model_mutex, frame_mutex,
                   frame_buffer, frame_w, frame_h, using, sframe, call, last,
                   err_since_load, otherVars>>

\* cira.c lines 604-629 and the entry of the backend's predict
\* (onnx_loader.c lines 493-503): the backend takes the model from the context
PredictBackendBegin ==
    /\ pc["api"] = "p_backend"
    /\ IF format = CIRA_FORMAT_UNKNOWN
       THEN /\ call' = [call EXCEPT !.ret = CIRA_ERROR_MODEL]
            /\ pc' = [pc EXCEPT !["api"] = "p_unlock"]
            /\ UNCHANGED <<status, using>>
       ELSE IF model_handle = 0
       THEN /\ cira_set_error
            /\ call' = [call EXCEPT !.ret = CIRA_ERROR_INPUT]
            /\ pc' = [pc EXCEPT !["api"] = "p_unlock"]
            /\ UNCHANGED using
       ELSE /\ using' = [using EXCEPT !["api"] = model_handle]
            /\ pc' = [pc EXCEPT !["api"] = "p_run"]
            /\ UNCHANGED <<status, call>>
    /\ UNCHANGED <<format, model_handle, freed, nloads, model_mutex, result_mutex,
                   frame_mutex, frame_buffer, frame_w, frame_h, sframe, last,
                   err_since_load, otherVars>>

\* how a backend's predict can end: detections published, failure after
\* cira_set_error (no memory), failure without it (the session's Run fails)
BackendOutcomes == {"ok", "fail_set_error", "fail_silent"}

\* the backend's predict runs on the model it took and returns
PredictBackendEnd ==
    /\ pc["api"] = "p_run"
    /\ \E outcome \in BackendOutcomes :
         CASE outcome = "ok" ->
                /\ call' = [call EXCEPT !.ret = CIRA_OK]
                /\ UNCHANGED status
           [] outcome = "fail_set_error" ->
                /\ cira_set_error
                /\ call' = [call EXCEPT !.ret = CIRA_ERROR_MEMORY, !.backend_failed = TRUE]
           [] outcome = "fail_silent" ->
                /\ call' = [call EXCEPT !.ret = CIRA_ERROR, !.backend_failed = TRUE]
                /\ UNCHANGED status
    /\ using' = [using EXCEPT !["api"] = 0]
    /\ pc' = [pc EXCEPT !["api"] = "p_unlock"]
    /\ UNCHANGED <<format, model_handle, freed, nloads, model_mutex, result_mutex,
                   frame_mutex, frame_buffer, frame_w, frame_h, sframe, last,
                   err_since_load, otherVars>>

\* cira.c lines 636-637
PredictUnlock ==
    /\ pc["api"] = "p_unlock"
    /\ result_mutex' = "none"
    /\ err_since_load' = IF call.ret # CIRA_OK THEN TRUE ELSE err_since_load
    /\ last' = call
    /\ call' = NoCall
    /\ pc' = [pc EXCEPT !["api"] = "idle"]
    /\ UNCHANGED <<status, format, model_handle, freed, nloads, model_mutex, frame_mutex,
                   frame_buffer, frame_w, frame_h, using, sframe, otherVars>>

\* ---- camera_thread_func_impl: one turn of the capture loop ----

\* cira_store_frame, cira.c line 105: the frame mutex is taken; the buffer is
\* reallocated on a size change and the frame copied into it while it is held
CamStoreBegin ==
    /\ pc["cam"] = "idle"
    /\ frame_mutex = "none"
    /\ frame_mutex' = "cam"
    /\ pc' = [pc EXCEPT !["cam"] = "c_copying"]
    /\ UNCHANGED <<status, format, model_handle, freed, nloads, model_mutex, result_mutex,
                   frame_buffer, frame_w, frame_h, using, sframe, call, last,
                   err_since_load, otherVars>>

\* cira.c lines 107-124: buffer, width and height are in place, the mutex is
\* released
CamStoreEnd ==
    /\ pc["cam"] = "c_copying"
    /\ frame_buffer' = 1
    /\ frame_w' = FrameWidth
    /\ frame_h' = FrameHeight
    /\ frame_mutex' = "none"
    /\ pc' = [pc EXCEPT !["cam"] = "c_check"]
    /\ UNCHANGED <<status, format, model_handle, freed, nloads, model_mutex, result_mutex,
                   using, sframe, call, last, err_since_load, otherVars>>

\* camera.cpp lines 126-128: the unlocked test, then pthread_mutex_trylock
CamTryLock ==
    /\ pc["cam"] = "c_check"
    /\ IF format # CIRA_FORMAT_UNKNOWN /\ model_handle # 0 /\ ~model_swapping
          /\ model_mutex = "none"
       THEN /\ model_mutex' = "cam"
            /\ pc' = [pc EXCEPT !["cam"] = "c_locked"]
       ELSE /\ pc' = [pc EXCEPT !["cam"] = "idle"]
            /\ UNCHANGED model_mutex
    /\ UNCHANGED <<status, format, model_handle, freed, nloads, result_mutex, frame_mutex,
                   frame_buffer, frame_w, frame_h, using, sframe, call, last,
                   err_since_load, otherVars>>

\* camera.cpp lines 130-158: the second test under the mutex, the switch on
\* the format and the entry of the backend's predict
CamPredictBegin ==
    /\ pc["cam"] = "c_locked"
    /\ IF model_handle # 0 /\ ~model_swapping /\ format # CIRA_FORMAT_UNKNOWN
       THEN /\ using' = [using EXCEPT !["cam"] = model_handle]
            /\ pc' = [pc EXCEPT !["cam"] = "c_run"]
       ELSE /\ pc' = [pc EXCEPT !["cam"] = "c_unlock"]
            /\ UNCHANGED using
    /\ UNCHANGED <<status, format, model_handle, freed, nloads, model_mutex, result_mutex,
                   frame_mutex, frame_buffer, frame_w, frame_h, sframe, call, last,
                   err_since_load, otherVars>>

\* the backend's predict runs on the model it took and returns
\* (camera.cpp lines 160-168)
CamPredictEnd ==
    /\ pc["cam"] = "c_run"
    /\ \E outcome \in BackendOutcomes :
         IF outcome = "fail_set_error" THEN cira_set_error ELSE UNCHANGED status
    /\ using' = [using EXCEPT !["cam"] = 0]
    /\ pc' = [pc EXCEPT !["cam"] = "c_unlock"]
    /\ UNCHANGED <<format, model_handle, freed, nloads, model_mutex, result_mutex,
                   frame_mutex, frame_buffer, frame_w, frame_h, sframe, call, last,
                   err_since_load, otherVars>>

\* camera.cpp line 170
CamUnlock ==
    /\ pc["cam"] = "c_unlock"
    /\ model_mutex' = "none"
    /\ pc' = [pc EXCEPT !["cam"] = "idle"]
    /\ UNCHANGED <<status, format, model_handle, freed, nloads, result_mutex, frame_mutex,
                   frame_buffer, frame_w, frame_h, using, sframe, call, last,
                   err_since_load, otherVars>>

\* ---- stream_callback, on the connection thread, when a new frame is due ----

\* stream_server.c lines 212-220 with cira_get_frame (cira.c lines 127-137):
\* pointer, width and height are read without the frame mutex
StreamGetFrame ==
    /\ pc["http"] = "idle"
    /\ sframe' = IF frame_buffer = 0
                 THEN [frame |-> 0, w |-> 0, h |-> 0]
                 ELSE [frame |-> frame_buffer, w |-> frame_w, h |-> frame_h]
    /\ pc' = [pc EXCEPT !["http"] =
                IF frame_buffer = 0 \/ frame_w <= 0 \/ frame_h <= 0
                THEN "idle" ELSE "s_encoding"]
    /\ UNCHANGED <<status, format, model_handle, freed, nloads, model_mutex, result_mutex,
                   frame_mutex, frame_buffer, frame_w, frame_h, using, call, last,
                   err_since_load, otherVars>>

\* stream_server.c lines 222-250: the encoder has read the frame through the
\* pointer and the JPEG is copied
StreamEncodeEnd ==
    /\ pc["http"] = "s_encoding"
    /\ pc' = [pc EXCEPT !["http"] = "idle"]
    /\ UNCHANGED <<status, format, model_handle, freed, nloads, model_mutex, result_mutex,
                   frame_mutex, frame_buffer, frame_w, frame_h, using, sframe, call, last,
                   err_since_load, otherVars>>

\* cira_load from the API caller; handle_model_load (stream_server.c line
\* 927) calls it on the connection thread
Load(t) == LoadBegin(t) \/ LoadUnload(t) \/ LoadDispatch(t)

NextRuntime ==
    \/ \E t \in {"api", "http"} : Load(t)
    \/ PredictEnter \/ PredictLock \/ PredictBackendBegin \/ PredictBackendEnd
    \/ PredictUnlock
    \/ CamStoreBegin \/ CamStoreEnd \/ CamTryLock \/ CamPredictBegin \/ CamPredictEnd
    \/ CamUnlock
    \/ StreamGetFrame \/ StreamEncodeEnd

SpecRuntime == InitRuntime /\ [][NextRuntime]_vars

\* C8 as stated: no model is unloaded or replaced while an inference on it
\* is in flight, in the capture thread or in cira_predict_image.
C8_NoUnloadDuringInference ==
    \A t \in Threads : using[t] # 0 => using[t] \notin freed

\* C9 as stated: the streaming thread never reads the last-frame buffer, or
\* its width and height, while the capture thread holds the frame mutex to
\* reallocate or overwrite it.
C9_FrameReadExcludesWrite ==
    ~(pc["http"] = "s_encoding" /\ pc["cam"] = "c_copying")

\* C10 as stated: after a cira_predict_image call has returned an error, and
\* with no cira_load since, a call with 3 channels on a context whose model
\* is loaded returns CIRA_OK (unless the backend itself fails on it).
C10_ErrorScopedToOneCall ==
    (/\ last.active
     /\ last.prior_err
     /\ last.channels = 3
     /\ last.loaded
     /\ ~last.backend_failed) => last.ret = CIRA_OK

(***************************************************************************)
(* The backend loaders.  onnx_predict (onnx_loader.c) parses every output  *)
(* tensor of the session in place, without yolo_decode, into one candidate *)
(* array of normalized corner boxes, runs its own nms_detections over the  *)
(* array and publishes the survivors with cira_add_detection.              *)
(*                                                                         *)
(* A normalized coordinate is held in tenths like every float (1.0 is      *)
(* One).  x /= input_w is modelled by integer division; the pixel values   *)
(* the model explores are multiples of the input size, for which it is     *)
(* exact.  Allocations are assumed to succeed.                             *)
(***************************************************************************)
CIRA_MAX_DETECTIONS == 256

\* onnx_predict line 615: size of the candidate array
OnnxMaxCandidates == CIRA_MAX_DETECTIONS * 4

\* v / n for a float v and an int n (x1 /= model->input_w)
DivBy(v, n) == IF v >= 0 THEN v \div n ELSE -((-v) \div n)


\* the alternative that returns its argument
clamp_none(v, lo, hi) == v
\* clamp_f, lines 199-203
clamp_f(v, lo, hi) == IF v < lo THEN lo ELSE IF v > hi THEN hi ELSE v

\* detections[num_detections] = ... : an onnx_detection_t with clamped corners
OnnxDet(x1, y1, x2, y2, confidence, label_id) ==
    [x1 |-> clamp_f(x1, 0, One), y1 |-> clamp_f(y1, 0, One),
     x2 |-> clamp_f(x2, 0, One), y2 |-> clamp_f(y2, 0, One),
     confidence |-> confidence, label_id |-> label_id]

\* Format A, rows [class_id, score, x1, y1, x2, y2] (off = 0), and Format B,
\* rows [batch_id, class_id, score, x1, y1, x2, y2] (off = 1)
RECURSIVE OnnxRowsLoop(_, _, _, _, _, _, _)
OnnxRowsLoop(output, num_boxes, width, off, ctx, i, dets) ==
    IF ~(i < num_boxes /\ Len(dets) < OnnxMaxCandidates) THEN dets
    ELSE
      LET base == i * width + off
          label_id == FloatToInt(At(output, base))
          score == At(output, base + 1)
          x1 == At(output, base + 2)
          y1 == At(output, base + 3)
          x2 == At(output, base + 4)
          y2 == At(output, base + 5)
          pixels == x2 > One \/ y2 > One
      IN  IF score > ctx.confidence_threshold /\ label_id >= 0
                                              /\ label_id < ctx.num_classes
          THEN OnnxRowsLoop(output, num_boxes, width, off, ctx, i + 1,
                 Append(dets,
                   IF pixels
                   THEN OnnxDet(DivBy(x1, ctx.input_w), DivBy(y1, ctx.input_h),
                                DivBy(x2, ctx.input_w), DivBy(y2, ctx.input_h),
                                score, label_id)
                   ELSE OnnxDet(x1, y1, x2, y2, score, label_id)))
          ELSE OnnxRowsLoop(output, num_boxes, width, off, ctx, i + 1, dets)

\* lines 750-758, 906-919: the first class with the highest value above 0
RECURSIVE OnnxBestClass(_, _, _, _, _, _, _)
OnnxBestClass(output, base, c, num_classes, activate, best_class, best_prob) ==
    IF c >= num_classes THEN [class |-> best_class, prob |-> best_prob]
    ELSE LET prob == IF activate THEN sigmoid(At(output, base + 5 + c))
                     ELSE At(output, base + 5 + c)
         IN  IF prob > best_prob
             THEN OnnxBestClass(output, base, c + 1, num_classes, activate, c, prob)
             ELSE OnnxBestClass(output, base, c + 1, num_classes, activate,
                                best_class, best_prob)

\* lines 777-789, 950-962: center box to clamped corners
OnnxCenterDet(cx, cy, bw, bh, score, label_id) ==
    OnnxDet(cx - Half(bw), cy - Half(bh), cx + Half(bw), cy + Half(bh), score, label_id)

\* Format C, rows [cx, cy, w, h, obj_conf, class_probs...]
RECURSIVE OnnxRawLoop(_, _, _, _, _, _)
OnnxRawLoop(output, num_boxes, values_per_box, ctx, i, dets) ==
    IF ~(i < num_boxes /\ Len(dets) < OnnxMaxCandidates) THEN dets
    ELSE
      LET base == i * values_per_box
          obj_conf == At(output, base + 4)
          best == OnnxBestClass(output, base, 0, ctx.num_classes, FALSE, 0, 0)
          score == Mul(obj_conf, best.prob)
          cx == At(output, base)
          cy == At(output, base + 1)
          bw == At(output, base + 2)
          bh == At(output, base + 3)
          pixels == cx > One \/ cy > One \/ bw > One \/ bh > One
      IN  IF obj_conf < ctx.confidence_threshold
          THEN OnnxRawLoop(output, num_boxes, values_per_box, ctx, i + 1, dets)
          ELSE IF score < ctx.confidence_threshold
          THEN OnnxRawLoop(output, num_boxes, values_per_box, ctx, i + 1, dets)
          ELSE OnnxRawLoop(output, num_boxes, values_per_box, ctx, i + 1,
                 Append(dets,
                   IF pixels
                   THEN OnnxCenterDet(DivBy(cx, ctx.input_w), DivBy(cy, ctx.input_h),
                                      DivBy(bw, ctx.input_w), DivBy(bh, ctx.input_h),
                                      score, best.class)
                   ELSE OnnxCenterDet(cx, cy, bw, bh, score, best.class)))

(***************************************************************************)
(* The 5-D raw grid output, [batch, anchors, grid_h, grid_w, values] or    *)
(* [batch, grid_h, grid_w, anchors, values].  expf is rounded to tenths at *)
(* multiples of 0.5 and constant in between; the anchor tables are the     *)
(* source's quotients by 416, rounded to tenths.                           *)
(***************************************************************************)
expf(x) ==
    IF x >= 20 THEN 74
    ELSE IF x >= 15 THEN 45
    ELSE IF x >= 10 THEN 27
    ELSE IF x >= 5 THEN 16
    ELSE IF x >= 0 THEN 10
    ELSE IF x >= -5 THEN 6
    ELSE IF x >= -10 THEN 4
    ELSE IF x >= -15 THEN 2
    ELSE IF x >= -25 THEN 1
    ELSE 0

anchors_w == <<0, 0, 1, 1, 1, 1, 3, 4, 9>>
anchors_h == <<0, 1, 1, 1, 1, 3, 2, 5, 8>>

\* lines 867-878: the largest objectness of the grid, from -1e9
RECURSIVE OnnxMaxObj(_, _, _, _, _)
OnnxMaxObj(output, cells, values_per_anchor, n, max_obj_raw) ==
    IF n >= cells THEN max_obj_raw
    ELSE OnnxMaxObj(output, cells, values_per_anchor, n + 1,
                    Max(max_obj_raw, At(output, n * values_per_anchor + 4)))

\* lines 889-965.  The three nested loops visit the cells in the order of
\* n = (gh * grid_w + gw) * num_anchors + a.
RECURSIVE Onnx5DLoop(_, _, _, _, _, _, _, _, _)
Onnx5DLoop(output, grid, values_per_anchor, anchor_offset, is_activated, ctx, n, cells, dets) ==
    IF ~(n < cells /\ Len(dets) < OnnxMaxCandidates) THEN dets
    ELSE
      LET gh == n \div (grid.w * grid.anchors)
          gw == (n \div grid.anchors) % grid.w
          a == n % grid.anchors
          base == n * values_per_anchor
          obj_conf == IF is_activated THEN At(output, base + 4)
                      ELSE sigmoid(At(output, base + 4))
          best == OnnxBestClass(output, base, 0, ctx.num_classes, ~is_activated, 0, 0)
          score == Mul(obj_conf, best.prob)
          anchor_idx == IF anchor_offset + a >= 9 THEN a % 3 ELSE anchor_offset + a
          c0 == At(output, base)
          c1 == At(output, base + 1)
          relative == c0 <= One /\ c1 <= One
          cx == IF is_activated
                THEN (IF relative THEN DivBy(gw * One + c0, grid.w) ELSE c0)
                ELSE DivBy(sigmoid(c0) + gw * One, grid.w)
          cy == IF is_activated
                THEN (IF relative THEN DivBy(gh * One + c1, grid.h) ELSE c1)
                ELSE DivBy(sigmoid(c1) + gh * One, grid.h)
          bw == IF is_activated THEN At(output, base + 2)
                ELSE Mul(expf(At(output, base + 2)), anchors_w[anchor_idx + 1])
          bh == IF is_activated THEN At(output, base + 3)
                ELSE Mul(expf(At(output, base + 3)), anchors_h[anchor_idx + 1])
      IN  IF obj_conf < ctx.confidence_threshold
          THEN Onnx5DLoop(output, grid, values_per_anchor, anchor_offset, is_activated,
                          ctx, n + 1, cells, dets)
          ELSE IF score < ctx.confidence_threshold
          THEN Onnx5DLoop(output, grid, values_per_anchor, anchor_offset, is_activated,
                          ctx, n + 1, cells, dets)
          ELSE Onnx5DLoop(output, grid, values_per_anchor, anchor_offset, is_activated,
                          ctx, n + 1, cells,
                          Append(dets, OnnxCenterDet(cx, cy, bw, bh, score, best.class)))

\* lines 823-968
OnnxGrid(output, shape, ctx, dets) ==
    IF shape[5] < 5 THEN dets
    ELSE
      LET values_per_anchor == shape[5]
          grid == IF shape[2] <= 9
                  THEN [anchors |-> shape[2], h |-> shape[3], w |-> shape[4]]
                  ELSE [h |-> shape[2], w |-> shape[3], anchors |-> shape[4]]
          cells == grid.h * grid.w * grid.anchors
          anchor_offset == IF grid.h = 52 THEN 0
                           ELSE IF grid.h = 26 THEN 3
                           ELSE IF grid.h = 13 THEN 6 ELSE 0
          max_obj_raw == OnnxMaxObj(output, cells, values_per_anchor, 0, -1000000000)
          is_activated == max_obj_raw <= One /\ max_obj_raw >= 0
      IN  IF values_per_anchor >= 5 + ctx.num_classes
          THEN Onnx5DLoop(output, grid, values_per_anchor, anchor_offset, is_activated,
                          ctx, 0, cells, dets)
          ELSE dets

\* the alternative that parses every output
OnnxParsesAll(out) == FALSE

\* lines 628-635: no tensor for this output, or GetTensorMutableData failed
OnnxSkipsOutput(out) == ~out.present \/ ~out.readable

\* lines 627-973, the body of the loop over the outputs: the candidates of
\* one output tensor, appended to dets.  An output that is skipped, or whose
\* shape is none of the known layouts, adds nothing.
OnnxParseOutput(out, ctx, dets) ==
    IF OnnxSkipsOutput(out) THEN dets
    ELSE
      LET num_dims == Len(out.shape)
      IN  IF num_dims = 3
          THEN LET num_boxes == out.shape[2]
                   values_per_box == out.shape[3]
               IN  IF values_per_box = 6
                   THEN OnnxRowsLoop(out.data, num_boxes, 6, 0, ctx, 0, dets)
                   ELSE IF values_per_box = 7
                   THEN OnnxRowsLoop(out.data, num_boxes, 7, 1, ctx, 0, dets)
                   ELSE IF values_per_box >= 5 + ctx.num_classes
                   THEN OnnxRawLoop(out.data, num_boxes, values_per_box, ctx, 0, dets)
                   ELSE dets
          ELSE IF num_dims = 2
          THEN IF out.shape[2] = 6
               THEN OnnxRowsLoop(out.data, out.shape[1], 6, 0, ctx, 0, dets)
               ELSE dets
          ELSE IF num_dims = 5 THEN OnnxGrid(out.data, out.shape, ctx, dets)
          ELSE dets

RECURSIVE OnnxOutputLoop(_, _, _, _)
OnnxOutputLoop(tensors, ctx, out_idx, dets) ==
    IF out_idx > Len(tensors) THEN dets
    ELSE OnnxOutputLoop(tensors, ctx, out_idx + 1, OnnxParseOutput(tensors[out_idx], ctx, dets))

(***************************************************************************)
(* nms_detections (onnx_loader.c), the NMS pass of onnx_predict over the   *)
(* candidates of all outputs.  compute_iou divides by the union plus 1e-6; *)
(* the quotient is held as an exact fraction in units of 1e-6, its         *)
(* denominator made positive.                                              *)
(***************************************************************************)
\* 1 / 1e-6f, the epsilon of compute_iou
IOU_EPSILON_INV == 1000000

Quot(num, den) == IF den < 0 THEN [num |-> -num, den |-> -den] ELSE [num |-> num, den |-> den]

compute_iou(a, b) ==
    LET inter_w == Max(0, Min(a.x2, b.x2) - Max(a.x1, b.x1))
        inter_h == Max(0, Min(a.y2, b.y2) - Max(a.y1, b.y1))
        inter_area == inter_w * inter_h
        area_a == (a.x2 - a.x1) * (a.y2 - a.y1)
        area_b == (b.x2 - b.x1) * (b.y2 - b.y1)
        per_area == IOU_EPSILON_INV \div (One * One)
    IN  Quot(inter_area * per_area, (area_a + area_b - inter_area) * per_area + 1)

detection_compare(da, db) ==
    IF da.confidence > db.confidence THEN -1
    ELSE IF da.confidence < db.confidence THEN 1 ELSE 0

\* qsort(dets, count, ..., detection_compare): equal confidences in any order
OnnxSortOutcomes(dets) ==
    LET n == Len(dets)
    IN  { [i \in 1..n |-> dets[p[i]]] :
            p \in { q \in [1..n -> 1..n] :
                      /\ IsPermutation(q, n)
                      /\ \A i \in 1..n : \A j \in 1..n :
                            i < j => detection_compare(dets[q[i]], dets[q[j]]) <= 0 } }

\* lines 174-192: keep the next unsuppressed detection and suppress every
\* later one that overlaps it, whatever its class
RECURSIVE OnnxNmsLoop(_, _, _, _, _)
OnnxNmsLoop(dets, suppressed, i, kept, nms_thresh) ==
    IF i > Len(dets) THEN kept
    ELSE IF i \in suppressed THEN OnnxNmsLoop(dets, suppressed, i + 1, kept, nms_thresh)
    ELSE OnnxNmsLoop(dets,
                     suppressed \cup { j \in (i + 1)..Len(dets) :
                                         /\ j \notin suppressed
                                         /\ FracGt(compute_iou(dets[i], dets[j]), nms_thresh) },
                     i + 1, Append(kept, dets[i]), nms_thresh)

\* the possible contents of dets[0..return value)
nms_detections(dets, nms_thresh) ==
    IF Len(dets) <= 1 THEN {dets}
    ELSE { OnnxNmsLoop(s, {}, 1, <<>>, nms_thresh) : s \in OnnxSortOutcomes(dets) }

\* cira_add_detection: appends unless ctx->detections is full; ok is the
\* return value
cira_add_detection(detections, x, y, w, h, confidence, label_id) ==
    IF Len(detections) >= CIRA_MAX_DETECTIONS
    THEN [ok |-> FALSE, detections |-> detections]
    ELSE [ok |-> TRUE,
          detections |-> Append(detections,
                                [x |-> x, y |-> y, w |-> w, h |-> h,
                                 confidence |-> confidence, label_id |-> label_id])]

\* onnx_predict lines 986-998: corners to (x, y, w, h), until the array is full
RECURSIVE OnnxPublish(_, _, _)
OnnxPublish(dets, i, detections) ==
    IF i > Len(dets) THEN detections
    ELSE LET added == cira_add_detection(detections, dets[i].x1, dets[i].y1,
                                         dets[i].x2 - dets[i].x1, dets[i].y2 - dets[i].y1,
                                         dets[i].confidence, dets[i].label_id)
         IN  IF added.ok THEN OnnxPublish(dets, i + 1, added.detections)
             ELSE added.detections

\* onnx_predict for a loaded model, 3 channels: the possible
\* [ret, detections].  inference.ok is the outcome of OrtApi::Run;
\* cira_clear_detections has run before it.
onnx_predict(inference, ctx) ==
    IF ~inference.ok THEN {[ret |-> CIRA_ERROR, detections |-> <<>>]}
    ELSE
      LET cands == OnnxOutputLoop(inference.tensors, ctx, 1, <<>>)
          kept == IF ctx.nms_threshold > 0 /\ Len(cands) > 1
                  THEN nms_detections(cands, ctx.nms_threshold)
                  ELSE {cands}
      IN  { [ret |-> CIRA_OK, detections |-> OnnxPublish(k, 1, <<>>)] : k \in kept }

(***************************************************************************)
(* ncnn_predict (ncnn_loader.cpp) from the extracted output Mat `out` on:  *)
(* it picks a parser from the Mat's dimensions w, h, c, hands the          *)
(* YOLOv5/v8 layouts to yolo_decode, runs yolo_nms after its own parsers   *)
(* and publishes normalized, clamped boxes.  A Mat is [w, h, c, data];     *)
(* element (q, y, x) of channel q is data[(q * h + y) * w + x].            *)
(***************************************************************************)
YoloDet(x1, y1, x2, y2, score, class_id) ==
    [x1 |-> x1, y1 |-> y1, x2 |-> x2, y2 |-> y2, score |-> score, class_id |-> class_id]

\* lines 488-511: rows of a Yolov3DetectionOutput layer, [label, score, x1,
\* y1, x2, y2] or with a leading batch id
RECURSIVE NcnnRowsLoop(_, _, _, _)
NcnnRowsLoop(out, conf_thresh, i, detections) ==
    IF ~(i < out.h) THEN detections
    ELSE
      LET base == i * out.w + (IF out.w = 7 THEN 1 ELSE 0)
          label_id == FloatToInt(At(out.data, base))
          score == At(out.data, base + 1)
      IN  IF score > conf_thresh
          THEN NcnnRowsLoop(out, conf_thresh, i + 1,
                            Append(detections,
                                   YoloDet(At(out.data, base + 2), At(out.data, base + 3),
                                           At(out.data, base + 4), At(out.data, base + 5),
                                           score, label_id)))
          ELSE NcnnRowsLoop(out, conf_thresh, i + 1, detections)

\* out.channel(q).row(gh)[gw]
Channel(out, q, gh, gw) == At(out.data, (q * out.h + gh) * out.w + gw)

\* lines 698-706
RECURSIVE NcnnGridBestClass(_, _, _, _, _, _, _, _)
NcnnGridBestClass(out, base, gh, gw, c, num_classes, best_class, best_prob) ==
    IF c >= num_classes THEN [class |-> best_class, prob |-> best_prob]
    ELSE IF Channel(out, base + 5 + c, gh, gw) > best_prob
         THEN NcnnGridBestClass(out, base, gh, gw, c + 1, num_classes, c,
                                Channel(out, base + 5 + c, gh, gw))
         ELSE NcnnGridBestClass(out, base, gh, gw, c + 1, num_classes, best_class, best_prob)

\* (float)w / model->input_w
ScaleOf(image, input) == (image * One) \div input

\* lines 691-726: the fallback for a raw YOLOv4 grid, three anchors of
\* 5 + num_classes channels each; the loops run over n = (a * h + gh) * w + gw
RECURSIVE NcnnGridLoop(_, _, _, _, _)
NcnnGridLoop(out, ctx, image, n, detections) ==
    IF n >= 3 * out.h * out.w THEN detections
    ELSE
      LET a == n \div (out.h * out.w)
          gh == (n \div out.w) % out.h
          gw == n % out.w
          base == a * (5 + ctx.num_classes)
          obj_conf == Channel(out, base + 4, gh, gw)
          best == NcnnGridBestClass(out, base, gh, gw, 0, ctx.num_classes, 0, 0)
          score == Mul(obj_conf, best.prob)
          cx == Channel(out, base, gh, gw)
          cy == Channel(out, base + 1, gh, gw)
          bw == Channel(out, base + 2, gh, gw)
          bh == Channel(out, base + 3, gh, gw)
          scale_w == ScaleOf(image.w, ctx.input_w)
          scale_h == ScaleOf(image.h, ctx.input_h)
      IN  IF obj_conf < ctx.confidence_threshold
          THEN NcnnGridLoop(out, ctx, image, n + 1, detections)
          ELSE IF score < ctx.confidence_threshold
          THEN NcnnGridLoop(out, ctx, image, n + 1, detections)
          ELSE NcnnGridLoop(out, ctx, image, n + 1,
                            Append(detections,
                                   YoloDet(Mul(cx - Half(bw), scale_w), Mul(cy - Half(bh), scale_h),
                                           Mul(cx + Half(bw), scale_w), Mul(cy + Half(bh), scale_h),
                                           score, best.class)))

\* lines 682-728
NcnnGrid(out, ctx, image) ==
    IF out.c >= (5 + ctx.num_classes) * 3
    THEN NcnnGridLoop(out, ctx, image, 0, <<>>)
    ELSE <<>>

\* lines 621-624 and 788-791: max(lo, min(hi, v))
ClampRange(v, lo, hi) ==
    LET m == IF v < hi THEN v ELSE hi
    IN  IF m > lo THEN m ELSE lo

\* dfl_decode, lines 42-58: the maximum of the 16 bins
RECURSIVE DflMax(_, _, _, _)
DflMax(output, base, i, max_val) ==
    IF i >= 16 THEN max_val
    ELSE DflMax(output, base, i + 1,
                IF At(output, base + i) > max_val THEN At(output, base + i) ELSE max_val)

\* dfl_decode, lines 49-57: softmax and weighted sum in one pass; the result
\* is the expected bin, in tenths of a bin
RECURSIVE DflSum(_, _, _, _, _, _)
DflSum(output, base, max_val, i, sum_exp, weighted_sum) ==
    IF i >= 16 THEN (weighted_sum * One) \div sum_exp
    ELSE LET exp_val == expf(At(output, base + i) - max_val)
         IN  DflSum(output, base, max_val, i + 1, sum_exp + exp_val, weighted_sum + exp_val * i)

dfl_decode(output, base) ==
    DflSum(output, base, DflMax(output, base, 1, At(output, base)), 0, 0, 0)

\* lines 541-548: grid_sizes[scale] and strides[scale]
DflGridSize(input_w, scale) ==
    CASE scale = 0 -> input_w \div 8
      [] scale = 1 -> (input_w \div 8) \div 2
      [] OTHER -> (input_w \div 8) \div 4

DflStride(scale) == CASE scale = 0 -> 8 [] scale = 1 -> 16 [] OTHER -> 32

\* lines 579-586 and 641: the scale, cell and stride under which the nested
\* loops reach flat box box_idx; `first` is the value of box_idx when the
\* loop of `scale` starts.  scale = -1: the loops end before box_idx.
RECURSIVE DflCellFrom(_, _, _, _)
DflCellFrom(box_idx, input_w, scale, first) ==
    IF scale >= 3 THEN [scale |-> -1, stride |-> 0, gx |-> 0, gy |-> 0]
    ELSE
      LET grid == DflGridSize(input_w, scale)
      IN  IF box_idx < first + grid * grid
          THEN [scale |-> scale, stride |-> DflStride(scale),
                gx |-> (box_idx - first) % grid, gy |-> (box_idx - first) \div grid]
          ELSE DflCellFrom(box_idx, input_w, scale + 1, first + grid * grid)

DflCell(box_idx, input_w, total_boxes) ==
    IF box_idx < total_boxes THEN DflCellFrom(box_idx, input_w, 0, 0)
    ELSE [scale |-> -1, stride |-> 0, gx |-> 0, gy |-> 0]

\* lines 566-576
NeedsSigmoid(out, num_classes) ==
    \E c \in 0..9 : c < num_classes /\ (At(out.data, 64 + c) < 0 \/ At(out.data, 64 + c) > One)

\* lines 590-601
RECURSIVE DflBestClass(_, _, _, _, _, _, _)
DflBestClass(out, base, c, num_classes, needs_sigmoid, best_class, best_score) ==
    IF c >= num_classes THEN [class |-> best_class, score |-> best_score]
    ELSE LET raw == At(out.data, base + 64 + c)
             score == IF needs_sigmoid THEN sigmoid(raw) ELSE raw
         IN  IF score > best_score
             THEN DflBestClass(out, base, c + 1, num_classes, needs_sigmoid, c, score)
             ELSE DflBestClass(out, base, c + 1, num_classes, needs_sigmoid, best_class, best_score)

\* lines 587-639: what one pass of the loop body pushes
NcnnDflBox(out, ctx, image, needs_sigmoid, box_idx) ==
    LET base == box_idx * out.w
        cell == DflCell(box_idx, ctx.input_w, out.h)
        best == DflBestClass(out, base, 0, ctx.num_classes, needs_sigmoid, 0, 0)
        cx == (cell.gx * One + Half(One)) * cell.stride
        cy == (cell.gy * One + Half(One)) * cell.stride
        x1 == ClampRange(cx - dfl_decode(out.data, base) * cell.stride, 0, ctx.input_w * One)
        y1 == ClampRange(cy - dfl_decode(out.data, base + 16) * cell.stride, 0, ctx.input_h * One)
        x2 == ClampRange(cx + dfl_decode(out.data, base + 32) * cell.stride, 0, ctx.input_w * One)
        y2 == ClampRange(cy + dfl_decode(out.data, base + 48) * cell.stride, 0, ctx.input_h * One)
        scale_x == ScaleOf(image.w, ctx.input_w)
        scale_y == ScaleOf(image.h, ctx.input_h)
    IN  IF best.score > ctx.confidence_threshold
        THEN <<YoloDet(Mul(x1, scale_x), Mul(y1, scale_y), Mul(x2, scale_x), Mul(y2, scale_y),
                       best.score, best.class)>>
        ELSE <<>>

\* lines 532-644: every box the loops reach, in the order of box_idx
NcnnDfl(out, ctx, image) ==
    LET grid0 == DflGridSize(ctx.input_w, 0)
        grid1 == DflGridSize(ctx.input_w, 1)
        grid2 == DflGridSize(ctx.input_w, 2)
        expected_total == grid0 * grid0 + grid1 * grid1 + grid2 * grid2
        reached == IF out.h < expected_total THEN out.h ELSE expected_total
        needs_sigmoid == NeedsSigmoid(out, ctx.num_classes)
        boxes == [b \in 1..reached |-> NcnnDflBox(out, ctx, image, needs_sigmoid, b - 1)]
        pushed == SelectSeq(boxes, LAMBDA r : r # <<>>)
    IN  [k \in 1..Len(pushed) |-> pushed[k][1]]

\* lines 731-753: the layouts handed to yolo_decode
NcnnUnified(out, shape, ctx) ==
    LET decode_config == [version |-> ctx.yolo_version, input_w |-> ctx.input_w,
                          input_h |-> ctx.input_h, num_classes |-> ctx.num_classes,
                          conf_threshold |-> ctx.confidence_threshold,
                          nms_threshold |-> ctx.nms_threshold,
                          max_detections |-> CIRA_MAX_DETECTIONS]
    IN  { IF r.count > 0 THEN r.dets ELSE <<>> :
            r \in yolo_decode(out.data, shape, 3, decode_config, CIRA_MAX_DETECTIONS) }

\* lines 488-728: the parser chosen for the Mat
NcnnBranch(out, num_classes) ==
    IF out.w = 6 \/ out.w = 7 THEN "predecoded"
    ELSE IF out.c = 1 /\ out.h > 1000 /\ out.w = 64 + num_classes THEN "dfl"
    ELSE IF out.c = 1 /\ out.h = 4 + num_classes /\ out.w > 1000 THEN "v8_transposed"
    ELSE IF out.w = 1 /\ out.c = 4 + num_classes /\ out.h > 1000 THEN "v8_channels"
    ELSE IF out.h > 1000 /\ out.w = 5 + num_classes THEN "v5"
    ELSE IF out.c > 0 THEN "grid"
    ELSE "none"

\* lines 755-760
NcnnNms(detections, ctx) ==
    IF ctx.nms_threshold > 0 /\ Len(detections) > 1
    THEN yolo_nms(detections, ctx.nms_threshold)
    ELSE {detections}

\* lines 478-760: the candidate lists the Mat can decode to
NcnnDetections(out, ctx, image) ==
    LET branch == NcnnBranch(out, ctx.num_classes)
    IN  CASE branch = "predecoded" ->
               NcnnNms(NcnnRowsLoop(out, ctx.confidence_threshold, 0, <<>>), ctx)
          [] branch = "dfl" -> NcnnNms(NcnnDfl(out, ctx, image), ctx)
          [] branch = "v8_transposed" -> NcnnUnified(out, <<1, out.h, out.w>>, ctx)
          [] branch = "v8_channels" -> NcnnUnified(out, <<1, out.c, out.h>>, ctx)
          [] branch = "v5" -> NcnnUnified(out, <<1, out.h, out.w>>, ctx)
          [] branch = "grid" -> NcnnNms(NcnnGrid(out, ctx, image), ctx)
          [] OTHER -> {<<>>}

\* lines 768-771
AlreadyNormalized(det) ==
    /\ det.x1 >= 0 /\ det.x1 <= One
    /\ det.y1 >= 0 /\ det.y1 <= One
    /\ det.x2 >= 0 /\ det.x2 <= One
    /\ det.y2 >= 0 /\ det.y2 <= One

\* lines 763-798
RECURSIVE NcnnPublish(_, _, _, _)
NcnnPublish(dets, image, i, detections) ==
    IF i > Len(dets) THEN detections
    ELSE
      LET det == dets[i]
          normalized == AlreadyNormalized(det)
          raw_x == IF normalized THEN det.x1 ELSE DivBy(det.x1, image.w)
          raw_y == IF normalized THEN det.y1 ELSE DivBy(det.y1, image.h)
          raw_w == IF normalized THEN det.x2 - det.x1 ELSE DivBy(det.x2 - det.x1, image.w)
          raw_h == IF normalized THEN det.y2 - det.y1 ELSE DivBy(det.y2 - det.y1, image.h)
          norm_x == ClampRange(raw_x, 0, One)
          norm_y == ClampRange(raw_y, 0, One)
          norm_w == ClampRange(raw_w, 0, One - norm_x)
          norm_h == ClampRange(raw_h, 0, One - norm_y)
          added == cira_add_detection(detections, norm_x, norm_y, norm_w, norm_h,
                                      det.score, det.class_id)
      IN  IF ~added.ok THEN detections
          ELSE NcnnPublish(dets, image, i + 1, added.detections)

\* line 469
NcnnExtractFailed(inference) ==
    inference.ret # 0 \/ (inference.out.w = 0 /\ inference.out.h = 0 /\ inference.out.c = 0)

\* A Mat names the elements that hold data (vals, by flat offset) and one
\* value for every other element; out.data is the contiguous buffer the Mat
\* stands for.
MatData(mat) ==
    [k \in 1..(mat.w * mat.h * mat.c) |->
       IF (k - 1) \in DOMAIN mat.vals THEN mat.vals[k - 1] ELSE mat.fill]

NcnnMat(mat) == [w |-> mat.w, h |-> mat.h, c |-> mat.c, data |-> MatData(mat)]

\* ncnn_predict, lines 293-802, from the extraction of the output on; the
\* detections of the previous frame are cleared on entry (line 306)
ncnn_predict(inference, ctx, image) ==
    IF NcnnExtractFailed(inference) THEN {[ret |-> CIRA_ERROR, detections |-> <<>>]}
    ELSE { [ret |-> CIRA_OK, detections |-> NcnnPublish(d, image, 1, <<>>)] :
             d \in NcnnDetections(NcnnMat(inference.out), ctx, image) }

(***************************************************************************)
(* darknet_predict (darknet_loader.c) from the boxes the Darknet library   *)
(* returns on: `dets` is the array left by get_network_boxes and           *)
(* do_nms_sort, one [x, y, w, h, prob] per box with relative centre        *)
(* coordinates and one probability per class.                              *)
(***************************************************************************)
\* lines 254-275: the classes of box i
RECURSIVE DarknetClassLoop(_, _, _, _, _)
DarknetClassLoop(box, num_classes, thresh, j, detections) ==
    IF j >= num_classes THEN detections
    ELSE IF box.prob[j + 1] > thresh
    THEN
      LET top_x == box.x - Half(box.w)
          top_y == box.y - Half(box.h)
          det_x == IF top_x < 0 THEN 0 ELSE top_x
          det_y == IF top_y < 0 THEN 0 ELSE top_y
          det_w == IF det_x + box.w > One THEN One - det_x ELSE box.w
          det_h == IF det_y + box.h > One THEN One - det_y ELSE box.h
          added == cira_add_detection(detections, det_x, det_y, det_w, det_h, box.prob[j + 1], j)
      IN  IF ~added.ok THEN detections
          ELSE DarknetClassLoop(box, num_classes, thresh, j + 1, added.detections)
    ELSE DarknetClassLoop(box, num_classes, thresh, j + 1, detections)

\* lines 252-280
RECURSIVE DarknetBoxLoop(_, _, _, _)
DarknetBoxLoop(dets, ctx, i, detections) ==
    IF i > Len(dets) THEN detections
    ELSE
      LET after == DarknetClassLoop(dets[i], ctx.num_classes, ctx.confidence_threshold,
                                    0, detections)
      IN  IF Len(after) >= CIRA_MAX_DETECTIONS THEN after
          ELSE DarknetBoxLoop(dets, ctx, i + 1, after)

\* lines 215-283, for a 3-channel frame
darknet_predict(dets, ctx) ==
    [ret |-> CIRA_OK, detections |-> DarknetBoxLoop(dets, ctx, 1, <<>>)]

(***************************************************************************)
(* SpecBackend: one frame through a backend's predict function.            *)
(***************************************************************************)
MaxRows == 2
MaxOutputs == 2

BackendCtx(version) ==
    [input_w |-> InputSize, input_h |-> InputSize, num_classes |-> NumClasses,
     confidence_threshold |-> ConfThreshold, nms_threshold |-> NmsThreshold,
     yolo_version |-> version]

\* [label, score, x1, y1, x2, y2] rows of an end-to-end ONNX export
OnnxRowPool ==
    { <<0, 9, 0, 0, 10, 10>>,                 \* class 0, the whole image
      <<10, 8, 0, 0, 10, 5>>,                 \* class 1, the upper half
      <<0, 8, 2080, 2080, 4576, 4160>>,       \* pixels, past the right edge
      <<0, 5, 0, 0, 5, 5>>,                   \* score equal to the threshold
      <<20, 9, 0, 0, 5, 5>>,                  \* a label the model does not have
      <<0, 7, 2, 2, 3, 6>> }                  \* a box inside the image

\* [cx, cy, w, h, obj, p0, p1, extra] rows
OnnxRawPool ==
    { <<5, 5, 10, 10, 9, 10, 0, 0>>,
      <<2080, 2080, 4160, 4160, 8, 0, 10, 0>>,
      <<4160, 2080, 1664, 1664, 9, 10, 0, 0>> }  \* centred on the right edge

OnnxTensor(shape, data) ==
    [present |-> TRUE, readable |-> TRUE, shape |-> shape, data |-> data]

\* outputs that yield no candidates: a NULL OrtValue, one whose data
\* cannot be read, and shapes of no known layout
OnnxFailing ==
    { [present |-> FALSE, readable |-> FALSE, shape |-> <<>>, data |-> <<>>],
      [present |-> TRUE, readable |-> FALSE, shape |-> <<1, 1, 6>>,
       data |-> <<0, 9, 0, 0, 10, 10>>],
      OnnxTensor(<<1, 2, 2, 2>>, <<0, 9, 0, 0, 10, 10, 0, 0>>),
      OnnxTensor(<<1, 1, 5>>, <<5, 5, 10, 10, 9>>),
      OnnxTensor(<<6>>, <<0, 9, 0, 0, 10, 10>>) }

OnnxSingle ==
    { OnnxTensor(<<1, Len(r), 6>>, Flatten(r)) : r \in Lists(OnnxRowPool, MaxRows) }
    \cup { OnnxTensor(<<1, 1, 7>>, <<0>> \o r) : r \in OnnxRowPool }
    \cup { OnnxTensor(<<1, 6>>, r) : r \in OnnxRowPool }
    \cup { OnnxTensor(<<1, 1, 8>>, r) : r \in OnnxRawPool }
    \cup { OnnxTensor(<<1, 1, 1, 2, 7>>, <<5, 5, 4, 4, 9, 10, 0, 5, 5, 4, 4, 2, 10, 0>>),
           OnnxTensor(<<1, 1, 1, 2, 7>>, <<0, 0, 0, 0, 30, 30, -30, 0, 0, 0, 0, -30, 0, 0>>) }
    \cup OnnxFailing

\* the outputs of a multi-output model
OnnxScalePool ==
    { OnnxTensor(<<1, 1, 6>>, <<0, 9, 0, 0, 10, 10>>),
      OnnxTensor(<<1, 1, 6>>, <<10, 8, 0, 0, 10, 5>>),
      OnnxTensor(<<1, 1, 8>>, <<2080, 2080, 832, 832, 8, 0, 10, 0>>) }
    \cup OnnxFailing

OnnxInferences ==
    { [ok |-> ok, tensors |-> <<t>>] : ok \in BOOLEAN, t \in OnnxSingle }
    \cup { [ok |-> TRUE, tensors |-> ts] :
             ts \in UNION { [1..n -> OnnxScalePool] : n \in 2..MaxOutputs } }

\* rows of an NCNN Yolov3DetectionOutput layer
NcnnRowPool ==
    { <<0, 9, 0, 0, 10, 10>>,
      <<10, 8, 0, 0, 10, 5>>,                 \* class 1 over the first box
      <<0, 8, 0, 0, 10, 5>>,                  \* class 0 over the first box
      <<0, 8, 2080, 2080, 9152, 4160>>,       \* pixels, past the right edge
      <<0, 7, -416, 0, 2080, 2080>>,          \* pixels, starts left of the image
      <<0, 5, 0, 0, 5, 5>> }                  \* score equal to the threshold

Mat(w, h, c, data) ==
    [w |-> w, h |-> h, c |-> c, vals |-> [k \in 0..(Len(data) - 1) |-> data[k + 1]], fill |-> 0]

\* one box of a raw DFL head: the distances sit in bins 2, 2, 3 and 3
DflBox(classes) ==
    [k \in 1..66 |->
       IF k = 3 \/ k = 16 + 3 \/ k = 32 + 4 \/ k = 48 + 4 THEN 500
       ELSE IF k > 64 THEN classes[k - 64] ELSE 0]

\* a Mat of n boxes with `box` at flat box 53 and nothing elsewhere
DflMat(n, box) ==
    [w |-> 66, h |-> n, c |-> 1, vals |-> [k \in (53 * 66)..(53 * 66 + 65) |-> box[k - 53 * 66 + 1]],
     fill |-> 0]

NcnnSmallMats ==
    { Mat(6, Len(r), 1, Flatten(r)) : r \in Lists(NcnnRowPool, MaxRows) }
    \cup { Mat(7, 1, 1, <<0>> \o r) : r \in NcnnRowPool }
    \cup { Mat(1, 1, 21, <<2080, 2080, 832, 832, 9, 10, 0>>),
           Mat(1, 1, 21, <<2080, 2080, 832, 832, 9, 10, 0, 0, 0, 0, 0, 0, 0, 0,
                           1040, 1040, 832, 832, 5, 0, 10>>),
           Mat(5, 3, 1, <<>>),
           Mat(0, 0, 0, <<>>) }

\* Mats of more than 1000 boxes
NcnnDflMats == { DflMat(1001, DflBox(<<30, -30>>)), DflMat(1001, DflBox(<<0, 9>>)) }

NcnnTransposedMats ==
    { Mat(1001, 6, 1, <<>>), Mat(1001, 6, 1, <<2080, 2080, 832, 832, 9, 10, 0>>) }

\* On the Mats of more than 1000 boxes that go to yolo_decode, only the
\* declared versions whose decoder walks shape[1] = 6 rows are explored.
ShallowVersions == {YOLO_VERSION_V4, YOLO_VERSION_V5, YOLO_VERSION_V10}

NcnnInferences ==
    { [ret |-> ret, out |-> m, version |-> v] :
        ret \in {0, -1}, m \in NcnnSmallMats \cup NcnnDflMats, v \in Versions }
    \cup { [ret |-> 0, out |-> m, version |-> v] : m \in NcnnTransposedMats, v \in ShallowVersions }

\* boxes returned by get_network_boxes and do_nms_sort
DarknetBoxPool ==
    { [x |-> 5, y |-> 5, w |-> 4, h |-> 4, prob |-> <<9, 0>>],
      [x |-> 1, y |-> 9, w |-> 6, h |-> 6, prob |-> <<0, 8>>],   \* over two edges
      [x |-> 5, y |-> 5, w |-> 20, h |-> 2, prob |-> <<7, 6>>],  \* wider than the image
      [x |-> 2, y |-> 2, w |-> 2, h |-> 2, prob |-> <<5, 0>>],   \* equal to the threshold
      [x |-> 8, y |-> 8, w |-> 2, h |-> 2, prob |-> <<0, 0>>] }  \* suppressed by do_nms_sort

ImageSizes == { [w |-> 416, h |-> 416], [w |-> 832, h |-> 416] }

\* detections of the previous frame still in ctx->detections
StaleDetections ==
    { <<>>, <<[x |-> 1, y |-> 1, w |-> 2, h |-> 2, confidence |-> 9, label_id |-> 0]>> }

InitBackend ==
    /\ NoHost
    /\ \/ /\ backend = "ONNX"
          /\ outs \in OnnxInferences
          /\ yver \in Versions
          /\ img = [w |-> 416, h |-> 416]
       \/ /\ backend = "NCNN"
          /\ \E inf \in NcnnInferences :
               /\ outs = [ret |-> inf.ret, out |-> inf.out]
               /\ yver = inf.version
          /\ img \in ImageSizes
       \/ /\ backend = "DARKNET"
          /\ outs \in Lists(DarknetBoxPool, MaxRows)
          /\ yver = YOLO_VERSION_AUTO
          /\ img = [w |-> 416, h |-> 416]
    /\ published \in StaleDetections
    /\ bret = CIRA_OK
    /\ bpc = "ready"
    /\ NoDecode
    /\ NoNms
    /\ NoFusion
    /\ NoRuntime
    /\ NoShape

\* cira_predict_image on an ONNX model
OnnxPredict ==
    /\ backend = "ONNX"
    /\ bpc = "ready"
    /\ \E r \in onnx_predict(outs, BackendCtx(yver)) :
         /\ bret' = r.ret
         /\ published' = r.detections
    /\ bpc' = "done"
    /\ UNCHANGED <<backend, outs, yver, img, decodeVars, nmsVars, fusionVars, runtimeVars, shapeVars, hostVars>>

\* cira_predict_image on an NCNN model; cira_set_error on the failure path
NcnnPredict ==
    /\ backend = "NCNN"
    /\ bpc = "ready"
    /\ \E r \in ncnn_predict(outs, BackendCtx(yver), img) :
         /\ bret' = r.ret
         /\ published' = r.detections
         /\ bpc' = IF r.ret = CIRA_OK THEN "done" ELSE "error_set"
    /\ UNCHANGED <<backend, outs, yver, img, decodeVars, nmsVars, fusionVars, runtimeVars, shapeVars, hostVars>>

\* cira_predict_image on a Darknet model
DarknetPredict ==
    /\ backend = "DARKNET"
    /\ bpc = "ready"
    /\ bret' = darknet_predict(outs, BackendCtx(yver)).ret
    /\ published' = darknet_predict(outs, BackendCtx(yver)).detections
    /\ bpc' = "done"
    /\ UNCHANGED <<backend, outs, yver, img, decodeVars, nmsVars, fusionVars, runtimeVars, shapeVars, hostVars>>

NextBackend == OnnxPredict \/ NcnnPredict \/ DarknetPredict

SpecBackend == InitBackend /\ [][NextBackend]_vars

(***************************************************************************)
(* C11: a tensor that fails to decode never makes the inference fail.      *)
(***************************************************************************)
\* the outputs of the inference that decode
Decodable(tensors) == SelectSeq(tensors, LAMBDA t : t \notin OnnxFailing)

\* what yolo_decode returned on the Mat that ncnn_predict handed to it
NcnnDecodeCounts ==
    LET out == NcnnMat(outs.out)
        branch == NcnnBranch(out, NumClasses)
        shape == IF branch = "v8_channels" THEN <<1, out.c, out.h>> ELSE <<1, out.h, out.w>>
        cfg == [Config(yver, CIRA_MAX_DETECTIONS) EXCEPT !.version = yver]
    IN  IF branch \in {"v8_transposed", "v8_channels", "v5"}
        THEN { r.count : r \in yolo_decode(out.data, shape, 3, cfg, CIRA_MAX_DETECTIONS) }
        ELSE {}

Unclassified ==
    /\ dpc = "decoded"
    /\ config.version = YOLO_VERSION_AUTO
    /\ yolo_detect_version(tensor.shape, Len(tensor.shape), config.num_classes) = YOLO_VERSION_AUTO

\* C12 as stated: with version Auto and a shape that yolo_detect_version
\* cannot classify, yolo_decode returns -1 and no detections, decoding the
\* tensor with no version's algorithm.
C12_AutoUnclassifiedFails ==
    Unclassified => result.count = -1 /\ result.dets = <<>>

\* C12 amended: with version Auto and a shape that yolo_detect_version cannot
\* classify, yolo_decode returns what it returns for the same tensor with
\* version V5 declared (the V5 decoder, then NMS and the cap); it returns -1
\* exactly where the V5 decoder rejects the shape (rows of at most 5 values).
C12_AutoFallsBackToV5 ==
    Unclassified =>
        /\ result \in yolo_decode(tensor.data, tensor.shape, Len(tensor.shape),
                                  [config EXCEPT !.version = YOLO_VERSION_V5], max_dets)
        /\ (result.count = -1 <=> (Len(tensor.shape) < 3 \/ tensor.shape[3] <= 5))

\* an unclassified tensor decoded to a detection
C12_Witness_FallbackDetections ==
    /\ Unclassified
    /\ result.count >= 1
    /\ result.dets # <<>>

(***************************************************************************)
(* C13: the declared version against the shape of the output.              *)
(***************************************************************************)
\* what the declared version's decoder, reached through yolo_decode, yields
\* on the Mat read as [1, h, w]
DeclaredVersionPublishes ==
    LET out == NcnnMat(outs.out)
    IN  { NcnnPublish(d, img, 1, <<>>) :
            d \in NcnnUnified(out, <<1, out.h, out.w>>, BackendCtx(yver)) }

\* C13: whenever a version other than Auto is declared, the detections an
\* NCNN inference publishes are those of the declared version's decode
\* algorithm applied to the output, whatever the output's shape (here: every
\* single-channel Mat of at most 1000 rows).
C13_DeclaredVersionDecides ==
    (/\ backend = "NCNN"
     /\ bpc = "done"
     /\ yver # YOLO_VERSION_AUTO
     /\ outs.out.c = 1
     /\ outs.out.h <= 1000) =>
        published \in DeclaredVersionPublishes

(***************************************************************************)
(* SpecDetect: yolo_detect_version on the shapes of real exports and their *)
(* neighbours.                                                             *)
(***************************************************************************)
MaxDims == 4

DimPool == {6, 84, 85, 99, 100, 300, 507, 1000, 1001, 2028, 6300, 8112, 8400, 18900, 25200}

ClassCounts == {2, 80}

\* [batch = 1, dim1, dim2, 1, ...] cut to num_dims dimensions
ShapePool ==
    { [k \in 1..n |-> IF k = 2 THEN d1 ELSE IF k = 3 THEN d2 ELSE 1] :
        n \in 1..MaxDims, d1 \in DimPool, d2 \in DimPool }

InitDetect ==
    /\ NoHost
    /\ dshape \in ShapePool
    /\ dnc \in ClassCounts
    /\ detected = YOLO_VERSION_AUTO
    /\ dfl_in = [input_w |-> 0, input_h |-> 0, box_idx |-> 0]
    /\ dfl_cell = [scale |-> -1]
    /\ spc = "shape"
    /\ NoDecode
    /\ NoNms
    /\ NoFusion
    /\ NoRuntime
    /\ NoBackend

\* version = yolo_detect_version(output_shape, num_dims, num_classes)
DetectVersion ==
    /\ spc = "shape"
    /\ detected' = yolo_detect_version(dshape, Len(dshape), dnc)
    /\ spc' = "detected"
    /\ UNCHANGED <<dshape, dnc, dfl_in, dfl_cell, decodeVars, nmsVars, fusionVars,
                   runtimeVars, backendVars, hostVars>>

NextDetect == DetectVersion

SpecDetect == InitDetect /\ [][NextDetect]_vars

(***************************************************************************)
(* C14: the priority list of the format detector.                          *)
(***************************************************************************)
\* rule k of the list matches (dim1, dim2)
RuleMatches(k, dim1, dim2, num_classes) ==
    CASE k = 1 -> dim1 = 300 /\ dim2 = 6
      [] k = 2 -> dim2 = 8400 /\ dim1 = 4 + num_classes
      [] k = 3 -> dim1 \in {25200, 18900, 6300}
      [] k = 4 -> dim1 < 100 /\ dim2 > 1000
      [] k = 5 -> dim1 > 1000 /\ dim2 < 100
      [] k = 6 -> dim1 \in {507, 2028, 8112}
      [] OTHER -> TRUE

RuleOutcome ==
    <<YOLO_VERSION_V10, YOLO_VERSION_V8, YOLO_VERSION_V5, YOLO_VERSION_V8,
      YOLO_VERSION_V5, YOLO_VERSION_V4, YOLO_VERSION_AUTO>>

\* the dimension after the batch dimension at position k (1 or 2), 0 if the
\* shape is shorter
DimAfterBatch(shape, k) == IF Len(shape) >= k + 1 THEN shape[k + 1] ELSE 0

\* C14: for every shape and num_classes, yolo_detect_version returns the
\* outcome of the first rule of the priority list that matches (dim1, dim2),
\* the dimensions after the batch dimension: (300,6) V10; dim2 = 8400 and
\* dim1 = 4 + num_classes V8; dim1 in {25200,18900,6300} V5; dim1 < 100 and
\* dim2 > 1000 V8; dim1 > 1000 and dim2 < 100 V5; dim1 in {507,2028,8112} V4;
\* otherwise Auto.
C14_FirstMatchingRule ==
    spc = "detected" =>
        \E k \in 1..7 :
            /\ RuleMatches(k, DimAfterBatch(dshape, 1), DimAfterBatch(dshape, 2), dnc)
            /\ \A j \in 1..(k - 1) :
                 ~RuleMatches(j, DimAfterBatch(dshape, 1), DimAfterBatch(dshape, 2), dnc)
            /\ detected = RuleOutcome[k]

\* a shape that matches both the [boxes, values] rule and a grid size:
\* [1, 2028, 85] is detected as V5
C14_Witness_EarlierRuleWins ==
    /\ spc = "detected"
    /\ RuleMatches(5, DimAfterBatch(dshape, 1), DimAfterBatch(dshape, 2), dnc)
    /\ RuleMatches(6, DimAfterBatch(dshape, 1), DimAfterBatch(dshape, 2), dnc)
    /\ detected = YOLO_VERSION_V5

(***************************************************************************)
(* C15: the confidence filter of the three decoders at the boundary.       *)
(***************************************************************************)
\* the tensor holds one box in the layout of the declared version, all of
\* its confidences already probabilities
OneDeclaredBox ==
    /\ dpc = "decoded"
    /\ config.version # YOLO_VERSION_AUTO
    /\ tensor.shape = (IF config.version = YOLO_VERSION_V10 THEN <<1, 1, 6>>
                       ELSE IF config.version = YOLO_VERSION_V8
                       THEN <<1, 4 + config.num_classes, 1>>
                       ELSE <<1, 1, 5 + config.num_classes>>)
    /\ \A k \in 5..(IF config.version = YOLO_VERSION_V10 THEN 5 ELSE Len(tensor.data)) :
         tensor.data[k] >= 0 /\ tensor.data[k] <= One

\* the score of that box: objectness times the best class probability (V4,
\* V5), the best class probability (V8), the score field (V10)
OneBoxScore ==
    IF config.version = YOLO_VERSION_V10 THEN tensor.data[5]
    ELSE IF config.version = YOLO_VERSION_V8 THEN Max(tensor.data[5], tensor.data[6])
    ELSE Mul(tensor.data[5], Max(tensor.data[6], tensor.data[7]))

\* C15 as stated: the filter is strict, every emitted candidate has a score
\* strictly greater than conf_threshold.
C15_StrictFilter ==
    dpc = "decoded" =>
        \A k \in 1..Len(result.dets) : result.dets[k].score > config.conf_threshold

\* C15 amended: the filter is inclusive.  No emitted candidate has a score
\* below conf_threshold, and a lone box is emitted exactly when its score is
\* not below conf_threshold, a score equal to the threshold included.
C15_InclusiveFilter ==
    /\ dpc = "decoded" =>
         \A k \in 1..Len(result.dets) : result.dets[k].score >= config.conf_threshold
    /\ OneDeclaredBox =>
         /\ (result.count = 1 <=> OneBoxScore >= config.conf_threshold)
         /\ (result.count = 1 => result.dets[1].score = OneBoxScore)

\* a lone box whose score equals the threshold is returned
C15_Witness_BoundaryEmitted ==
    /\ OneDeclaredBox
    /\ OneBoxScore = config.conf_threshold
    /\ result.count = 1
    /\ result.dets[1].score = config.conf_threshold

(***************************************************************************)
(* C16: the loader's final NMS pass and the classes.                       *)
(***************************************************************************)
\* the candidates before the loader's NMS pass, as [class, score]
FinalNmsCandidates ==
    IF backend = "ONNX"
    THEN LET c == OnnxOutputLoop(outs.tensors, BackendCtx(yver), 1, <<>>)
         IN  [k \in 1..Len(c) |-> [class |-> c[k].label_id, score |-> c[k].confidence]]
    ELSE LET c == NcnnRowsLoop(NcnnMat(outs.out), ConfThreshold, 0, <<>>)
         IN  [k \in 1..Len(c) |-> [class |-> c[k].class_id, score |-> c[k].score]]

\* C16: the loader's final NMS pass removes only same-class duplicates: a
\* candidate that is the only one of its class is never suppressed, so it is
\* published.
C16_OnlySameClassSuppressed ==
    (/\ bpc = "done"
     /\ \/ backend = "ONNX" /\ outs.ok
        \/ backend = "NCNN" /\ NcnnBranch(NcnnMat(outs.out), NumClasses) = "predecoded") =>
        \A i \in 1..Len(FinalNmsCandidates) :
            (\A j \in 1..Len(FinalNmsCandidates) :
                j # i => FinalNmsCandidates[j].class # FinalNmsCandidates[i].class) =>
            \E k \in 1..Len(published) :
                /\ published[k].label_id = FinalNmsCandidates[i].class
                /\ published[k].confidence = FinalNmsCandidates[i].score

C18_V8RejectsOtherChannelCounts ==
    (/\ dpc = "decoded"
     /\ DecodedVersion = YOLO_VERSION_V8
     /\ \/ Len(tensor.shape) < 3
        \/ /\ tensor.shape[2] # 4 + config.num_classes
           /\ tensor.shape[2] # 64 + config.num_classes) =>
        result.count = -1 /\ result.dets = <<>>

\* the class scores of a one-box DFL tensor sit in channels 64 onward
DflClassScore(c) == tensor.data[64 + c + 1]

\* C19: with 64 + num_classes channels the V8 decoder decodes channels 0..63
\* as four 16-bin DFL distributions and reads the class scores from channel
\* 64 onward: a lone box whose best class score passes the threshold is
\* returned with that class and score, and its width is the sum of the left
\* and right distances times a stride of 8, 16 or 32.
C19_V8DecodesDfl ==
    (/\ dpc = "decoded"
     /\ DecodedVersion = YOLO_VERSION_V8
     /\ tensor.shape = <<1, 64 + config.num_classes, 1>>
     /\ \E c \in 0..(config.num_classes - 1) : DflClassScore(c) >= config.conf_threshold) =>
        /\ result.count = 1
        /\ result.dets[1].class_id \in 0..(config.num_classes - 1)
        /\ result.dets[1].score = DflClassScore(result.dets[1].class_id)
        /\ \E stride \in {8, 16, 32} :
             result.dets[1].x2 - result.dets[1].x1 =
                 (dfl_decode(tensor.data, 0) + dfl_decode(tensor.data, 32)) * stride

(***************************************************************************)
(* SpecDfl: the scale, cell and stride that the DFL loop of ncnn_predict   *)
(* gives to one box of the flat box axis.                                  *)
(***************************************************************************)
InputSides == {256, 320, 416, 512, 640}

\* the boxes a DFL head emits for the stride: one per cell of the
\* (input_w / stride) x (input_h / stride) grid
HeadRun(input_w, input_h, stride) == (input_w \div stride) * (input_h \div stride)

HeadBoxes(input_w, input_h) ==
    HeadRun(input_w, input_h, 8) + HeadRun(input_w, input_h, 16) + HeadRun(input_w, input_h, 32)

\* the first and last box of each run, the second grid row, the last box
Landmarks(input_w, input_h) ==
    LET r0 == HeadRun(input_w, input_h, 8)
        r1 == HeadRun(input_w, input_h, 16)
    IN  {0, 1, input_w \div 8, r0 - 1, r0, r0 + 1, r0 + (input_w \div 16),
         r0 + r1 - 1, r0 + r1, r0 + r1 + (input_w \div 32), HeadBoxes(input_w, input_h) - 1}

InitDfl ==
    /\ NoHost
    /\ \E input_w \in InputSides, input_h \in InputSides :
         /\ HeadBoxes(input_w, input_h) > 1000
         /\ \E box_idx \in Landmarks(input_w, input_h) :
              dfl_in = [input_w |-> input_w, input_h |-> input_h, box_idx |-> box_idx]
    /\ dfl_cell = [scale |-> -1]
    /\ dshape = <<>>
    /\ dnc = 0
    /\ detected = YOLO_VERSION_AUTO
    /\ spc = "box"
    /\ NoDecode
    /\ NoNms
    /\ NoFusion
    /\ NoRuntime
    /\ NoBackend

\* the pass of the loops at lines 580-644 that decodes row box_idx of a Mat
\* of out.h = HeadBoxes rows
DflAssign ==
    /\ spc = "box"
    /\ dfl_cell' = DflCell(dfl_in.box_idx, dfl_in.input_w,
                           HeadBoxes(dfl_in.input_w, dfl_in.input_h))
    /\ spc' = "assigned"
    /\ UNCHANGED <<dshape, dnc, detected, dfl_in, decodeVars, nmsVars, fusionVars,
                   runtimeVars, backendVars, hostVars>>

NextDfl == DflAssign

SpecDfl == InitDfl /\ [][NextDfl]_vars

(***************************************************************************)
(* C20: the three runs of the flat box axis.                               *)
(***************************************************************************)
\* the run a box belongs to when the runs of strides 8, 16 and 32 follow
\* one another, each of (input_w / stride) x (input_h / stride) boxes in
\* row-major order
RECURSIVE OwnRun(_, _, _, _)
OwnRun(k, input_w, input_h, stride) ==
    IF k < HeadRun(input_w, input_h, stride) \/ stride = 32
    THEN [stride |-> stride, gx |-> k % (input_w \div stride), gy |-> k \div (input_w \div stride)]
    ELSE OwnRun(k - HeadRun(input_w, input_h, stride), input_w, input_h, 2 * stride)

\* C20: the flat box axis is split into three contiguous runs for strides 8,
\* 16 and 32, the run of each stride holding (input_w/stride) x
\* (input_h/stride) boxes, and each box is decoded with the grid cell and the
\* stride of its own run.
C20_BoxDecodedInOwnRun ==
    spc = "assigned" =>
        LET own == OwnRun(dfl_in.box_idx, dfl_in.input_w, dfl_in.input_h, 8)
        IN  /\ dfl_cell.scale >= 0
            /\ dfl_cell.stride = own.stride
            /\ dfl_cell.gx = own.gx
            /\ dfl_cell.gy = own.gy

(***************************************************************************)
(* The two IoU functions of the runtime, iou (yolo_decoder.c) and          *)
(* compute_iou (onnx_loader.c), applied to one pair of boxes in both       *)
(* argument orders and to the first box with itself.  The corners are      *)
(* normalized coordinates in tenths, the range clamp_f leaves in an ONNX   *)
(* candidate; degenerate and inverted boxes are among them.                *)
(***************************************************************************)
IouCorners == {0, 4, One}

IouBoxes == [x1 : IouCorners, y1 : IouCorners, x2 : IouCorners, y2 : IouCorners]

InitIou ==
    /\ NoServer
    /\ NoStream
    /\ NoShare
    /\ NoCamera
    /\ ia \in IouBoxes
    /\ ib \in IouBoxes
    /\ ires = <<>>
    /\ ipc = "boxes"
    /\ NoDecode
    /\ NoNms
    /\ NoFusion
    /\ NoRuntime
    /\ NoBackend
    /\ NoShape

IouCompute ==
    /\ ipc = "boxes"
    /\ ires' = [yolo_ab |-> iou(ia, ib), yolo_ba |-> iou(ib, ia), yolo_aa |-> iou(ia, ia),
                onnx_ab |-> compute_iou(ia, ib), onnx_ba |-> compute_iou(ib, ia),
                onnx_aa |-> compute_iou(ia, ia)]
    /\ ipc' = "computed"
    /\ UNCHANGED <<ia, ib, coreVars, notIou>>

NextIou == IouCompute

SpecIou == InitIou /\ [][NextIou]_vars

\* the same quotient: both are unreduced fractions over the same union
QuotEq(q, r) == q.num = r.num /\ q.den = r.den

QuotInUnit(q) == 0 <= q.num /\ q.num <= q.den

QuotIsOne(q) == q.num = q.den

NonDegenerate(b) == b.x2 > b.x1 /\ b.y2 > b.y1

\* C21: iou(a,b) = iou(b,a), 0 <= iou(a,b) <= 1, and iou(a,a) = 1 for every
\* non-degenerate box a, for iou of the YOLO decoder and for compute_iou of
\* the ONNX loader.
C21_IouSymmetricBoundedReflexive ==
    ipc = "computed" =>
        /\ QuotEq(ires.yolo_ab, ires.yolo_ba) /\ QuotEq(ires.onnx_ab, ires.onnx_ba)
        /\ QuotInUnit(ires.yolo_ab) /\ QuotInUnit(ires.onnx_ab)
        /\ NonDegenerate(ia) => QuotIsOne(ires.yolo_aa) /\ QuotIsOne(ires.onnx_aa)

\* what holds of both functions: symmetry and the bounds; iou alone returns
\* 1 for a non-degenerate box with itself, compute_iou stays below 1
C21_SymmetricBounded ==
    ipc = "computed" =>
        /\ QuotEq(ires.yolo_ab, ires.yolo_ba) /\ QuotEq(ires.onnx_ab, ires.onnx_ba)
        /\ QuotInUnit(ires.yolo_ab) /\ QuotInUnit(ires.onnx_ab)
        /\ QuotInUnit(ires.yolo_aa) /\ QuotInUnit(ires.onnx_aa)
        /\ NonDegenerate(ia) => QuotIsOne(ires.yolo_aa) /\ ~QuotIsOne(ires.onnx_aa)

MaxStarts == 2

MaxRequests == 4

InitServer ==
    /\ server_running = 0
    /\ g_server = "NULL"
    /\ daemon = "none"
    /\ ctx_live = TRUE
    /\ srv_calls = [starts |-> 0, started_ok |-> FALSE, stopped_ok |-> FALSE]
    /\ handled = [total |-> 0, after_stop |-> 0, after_destroy |-> 0]
    /\ NoIou
    /\ NoStream
    /\ NoShare
    /\ NoCamera
    /\ NoDecode
    /\ NoNms
    /\ NoFusion
    /\ NoRuntime
    /\ NoBackend
    /\ NoShape

\* stream_server.c lines 1968-2008: MHD_start_daemon binds the port or fails
server_start(daemon_starts) ==
    IF g_server = "running"
    THEN /\ srv_calls' = [srv_calls EXCEPT !.starts = @ + 1, !.started_ok = TRUE]
         /\ UNCHANGED <<g_server, daemon>>
    ELSE IF daemon_starts
    THEN /\ g_server' = "running"
         /\ daemon' = "listening"
         /\ srv_calls' = [srv_calls EXCEPT !.starts = @ + 1, !.started_ok = TRUE]
    ELSE /\ g_server' = "NULL"
         /\ srv_calls' = [srv_calls EXCEPT !.starts = @ + 1]
         /\ UNCHANGED daemon

\* stream_server.c lines 2012-2028
server_stop ==
    IF g_server # "running"
    THEN UNCHANGED <<g_server, daemon>>
    ELSE /\ daemon' = "none"
         /\ g_server' = "NULL"

\* cira.c lines 740-750
StartServer ==
    /\ ctx_live
    /\ srv_calls.starts < MaxStarts
    /\ \E daemon_starts \in BOOLEAN :
         IF server_running # 0
         THEN /\ srv_calls' = [srv_calls EXCEPT !.starts = @ + 1, !.started_ok = TRUE]
              /\ UNCHANGED <<g_server, daemon>>
         ELSE server_start(daemon_starts)
    /\ UNCHANGED <<server_running, ctx_live, handled, coreVars, notServer>>

\* cira.c lines 752-761: both paths return CIRA_OK
StopServer ==
    /\ ctx_live
    /\ IF server_running = 0 THEN UNCHANGED <<g_server, daemon>> ELSE server_stop
    /\ srv_calls' = [srv_calls EXCEPT !.stopped_ok = srv_calls.started_ok]
    /\ UNCHANGED <<server_running, ctx_live, handled, coreVars, notServer>>

\* cira.c lines 439-452 and the free of the context at the end of cira_destroy
Destroy ==
    /\ ctx_live
    /\ IF server_running # 0 THEN server_stop ELSE UNCHANGED <<g_server, daemon>>
    /\ ctx_live' = FALSE
    /\ UNCHANGED <<server_running, srv_calls, handled, coreVars, notServer>>

\* a client connects and request_handler serves it from ctx
HandleRequest ==
    /\ daemon = "listening"
    /\ handled.total < MaxRequests
    /\ handled' = [total |-> handled.total + 1,
                   after_stop |-> handled.after_stop + (IF srv_calls.stopped_ok THEN 1 ELSE 0),
                   after_destroy |-> handled.after_destroy + (IF ctx_live THEN 0 ELSE 1)]
    /\ UNCHANGED <<server_running, g_server, daemon, ctx_live, srv_calls, coreVars, notServer>>

NextServer == StartServer \/ StopServer \/ Destroy \/ HandleRequest

SpecServer == InitServer /\ [][NextServer]_vars

\* C23: once cira_start_server has returned CIRA_OK and a cira_stop_server
\* call has returned CIRA_OK, the daemon is shut down and no request handler
\* touches the context any more, in particular not after cira_destroy.
C23_StopLeavesServerStopped ==
    srv_calls.stopped_ok =>
        /\ daemon = "none"
        /\ handled.after_stop = 0
        /\ handled.after_destroy = 0

(***************************************************************************)
(* stream_callback (stream_server.c), the MHD content reader of one MJPEG  *)
(* connection.  A delivered byte is a token: <<"h", f, k>> is byte k of    *)
(* frame f's boundary header, <<"j", f, k>> byte k of its JPEG, <<"cr", f>>*)
(* and <<"lf", f>> the CRLF that ends it.  jpeg_data holds the frame the   *)
(* malloc'ed copy belongs to, 0 for NULL.                                  *)
(***************************************************************************)
MaxCalls == 4

MaxJpeg == 3

\* strlen("--frame\r\nContent-Type: image/jpeg\r\nContent-Length: ")
BOUNDARY_LEN == 51

\* the %zu of snprintf
Digits(n) == IF n < 10 THEN 1 ELSE IF n < 100 THEN 2 ELSE 3

\* strlen(header): the boundary, the size and "\r\n\r\n"
HeaderLen(jpeg_size) == BOUNDARY_LEN + Digits(jpeg_size) + 4

HeaderBytes(f, from, to) == [k \in 1..(to - from + 1) |-> <<"h", f, from + k - 1>>]

JpegBytes(f, from, to) == [k \in 1..(to - from + 1) |-> <<"j", f, from + k - 1>>]

\* lines 203-251: fetched is the size of the JPEG the encoder returned, or 0
\* when there is no frame, the encoder fails or malloc fails
StreamNextFrame(s, fetched, frame) ==
    IF s.jpeg_data = 0 \/ s.jpeg_offset >= s.jpeg_size
    THEN IF fetched = 0
         THEN [s EXCEPT !.jpeg_data = 0]
         ELSE [s EXCEPT !.jpeg_data = frame, !.jpeg_size = fetched, !.jpeg_offset = 0,
                        !.header_sent = 0]
    ELSE s

\* lines 253-294, on a connection that holds a frame
StreamWrite(s, max) ==
    LET hlen == HeaderLen(s.jpeg_size)
        f == s.jpeg_data
    IN  IF s.header_sent = 0 /\ hlen > max
        THEN [sctx |-> s, out |-> HeaderBytes(f, 1, max), ret |-> max]
        ELSE LET written1 == IF s.header_sent = 0 THEN hlen ELSE 0
                 out1 == IF s.header_sent = 0 THEN HeaderBytes(f, 1, hlen) ELSE <<>>
                 remaining == s.jpeg_size - s.jpeg_offset
                 space == max - written1
                 to_send == IF remaining < space THEN remaining ELSE space
                 offset2 == s.jpeg_offset + to_send
                 written2 == written1 + to_send
                 out2 == out1 \o JpegBytes(f, s.jpeg_offset + 1, offset2)
                 s2 == [s EXCEPT !.header_sent = 1, !.jpeg_offset = offset2]
             IN  IF offset2 >= s.jpeg_size /\ written2 + 2 <= max
                 THEN [sctx |-> [s2 EXCEPT !.frame_sent = @ + 1, !.jpeg_data = 0],
                       out |-> out2 \o << <<"cr", f>>, <<"lf", f>> >>,
                       ret |-> written2 + 2]
                 ELSE [sctx |-> s2, out |-> out2, ret |-> written2]

\* lines 191-295
stream_callback(s, max, running, fetched, frame) ==
    IF ~running
    THEN [sctx |-> s, out |-> <<>>, ret |-> -1, fetched |-> FALSE]
    ELSE LET fetch == s.jpeg_data = 0 \/ s.jpeg_offset >= s.jpeg_size
             s1 == StreamNextFrame(s, fetched, frame)
         IN  IF fetch /\ fetched = 0
             THEN [sctx |-> s1, out |-> <<>>, ret |-> 0, fetched |-> FALSE]
             ELSE [fetched |-> fetch] @@ StreamWrite(s1, max)

\* the buffer sizes MHD hands to the callback
BufSizes(jpeg_size) ==
    {1, 2, HeaderLen(jpeg_size), HeaderLen(jpeg_size) + jpeg_size,
     HeaderLen(jpeg_size) + jpeg_size + 2}

InitStream ==
    /\ sctx = [jpeg_data |-> 0, jpeg_size |-> 0, jpeg_offset |-> 0, header_sent |-> 0,
               frame_sent |-> 0]
    /\ wire = <<>>
    /\ sizes = <<>>
    /\ cb = [calls |-> 0, max |-> 0, ret |-> 0]
    /\ NoIou
    /\ NoServer
    /\ NoShare
    /\ NoCamera
    /\ NoDecode
    /\ NoNms
    /\ NoFusion
    /\ NoRuntime
    /\ NoBackend
    /\ NoShape

StreamCallback ==
    /\ cb.calls >= 0
    /\ cb.calls < MaxCalls
    /\ \E fetched \in 0..MaxJpeg, running \in BOOLEAN :
         \E max \in BufSizes(IF fetched = 0 THEN sctx.jpeg_size ELSE fetched) :
           LET r == stream_callback(sctx, max, running, fetched, Len(sizes) + 1)
           IN  /\ sctx' = r.sctx
               /\ wire' = wire \o r.out
               /\ sizes' = IF r.fetched THEN Append(sizes, fetched) ELSE sizes
               /\ cb' = [calls |-> cb.calls + 1, max |-> max, ret |-> r.ret]
    /\ UNCHANGED <<coreVars, notStream>>

NextStream == StreamCallback

SpecStream == InitStream /\ [][NextStream]_vars

\* the bytes of one complete frame
FrameBytes(f) ==
    HeaderBytes(f, 1, HeaderLen(sizes[f])) \o JpegBytes(f, 1, sizes[f])
        \o << <<"cr", f>>, <<"lf", f>> >>

RECURSIVE FramesBytes(_)
FramesBytes(n) == IF n = 0 THEN <<>> ELSE FramesBytes(n - 1) \o FrameBytes(n)

IsPrefix(p, q) == Len(p) <= Len(q) /\ SubSeq(q, 1, Len(p)) = p

\* C24: the delivered bytes are, frame after frame, the complete boundary
\* header once, the jpeg_size bytes of the frame's JPEG and CRLF, each frame
\* finished before the next begins, and no call writes more than max bytes.
C24_FramesDeliveredWhole ==
    /\ IsPrefix(wire, FramesBytes(Len(sizes)))
    /\ cb.ret <= cb.max

\* no call writes more than max bytes
C24_NeverMoreThanMax == cb.ret <= cb.max

\* C28: when cira_load returns, ctx->status is CIRA_STATUS_READY if it
\* returned CIRA_OK and CIRA_STATUS_ERROR otherwise; once no cira_load is
\* running any more the status is never CIRA_STATUS_LOADING.
C28_LoadLeavesReadyOrError ==
    load_ret.returned =>
        /\ load_ret.status = (IF load_ret.ret = CIRA_OK THEN CIRA_STATUS_READY
                                                         ELSE CIRA_STATUS_ERROR)
        /\ (\A t \in Threads : pc[t] \notin {"l_unload", "l_dispatch"}) =>
               status # CIRA_STATUS_LOADING

(***************************************************************************)
(* The threads that share the JPEG encoder and the detection list: the     *)
(* capture thread (camera.cpp, one loop iteration at a time), an MHD       *)
(* connection thread serving /stream and /frame/latest (stream_server.c)   *)
(* and the caller of cira_predict_image (cira.c).  A model is loaded and   *)
(* a frame is stored throughout.  One step is one lock operation or one    *)
(* access to shared data.                                                  *)
(***************************************************************************)
MaxInfer == 2

MaxCount == 1

InitShare ==
    /\ CreatedShare
    /\ tpc = [t \in ShareThreads |-> "idle"]
    /\ NoIou
    /\ NoServer
    /\ NoStream
    /\ NoCamera
    /\ NoDecode
    /\ NoNms
    /\ NoFusion
    /\ NoRuntime
    /\ NoBackend
    /\ NoShape

\* pthread_mutex_lock returns once the mutex is free
Lock(m, t) ==
    /\ mtx[m] = "none"
    /\ mtx' = [mtx EXCEPT ![m] = t]

Unlock(m) == mtx' = [mtx EXCEPT ![m] = "none"]

Goto(t, label) == tpc' = [tpc EXCEPT ![t] = label]

\* ---- the capture thread, camera.cpp lines 98-192 ----

\* cira_store_frame, cira.c line 105
CamStoreLock ==
    /\ tpc["cam"] = "idle"
    /\ det_list.gen < MaxInfer
    /\ Lock("frame_mutex", "cam")
    /\ Goto("cam", "c_stored")
    /\ top' = [top EXCEPT !["cam"] = [op |-> "cam_write", ann |-> TRUE]]
    /\ copied' = [copied EXCEPT !["cam"] = "none"]
    /\ UNCHANGED <<g_jpeg_buffer, det_list, result_json, frame_file, seen_partial, coreVars,
                   notShare>>

\* cira.c line 124, then camera.cpp lines 118-123: every third frame is
\* written to the frame file
CamStoreUnlock ==
    /\ tpc["cam"] = "c_stored"
    /\ Unlock("frame_mutex")
    /\ \E write_counter_full \in BOOLEAN :
         Goto("cam", IF write_counter_full THEN "e_lock" ELSE "c_check")
    /\ UNCHANGED <<top, g_jpeg_buffer, copied, det_list, result_json, frame_file, seen_partial,
                   coreVars, notShare>>

\* camera.cpp lines 126-130: the model is loaded; model_mutex is tried
CamTryModel ==
    /\ tpc["cam"] = "c_check"
    /\ IF mtx["model_mutex"] = "none"
       THEN /\ mtx' = [mtx EXCEPT !["model_mutex"] = "cam"]
            /\ Goto("cam", "c_clear")
       ELSE /\ Goto("cam", "idle")
            /\ UNCHANGED mtx
    /\ UNCHANGED <<top, g_jpeg_buffer, copied, det_list, result_json, frame_file, seen_partial,
                   coreVars, notShare>>

\* the backend predict clears the list (cira_clear_detections, cira.c lines 90-93)
CamClear ==
    /\ tpc["cam"] = "c_clear"
    /\ det_list' = [det_list EXCEPT !.count = 0, !.partial = TRUE]
    /\ Goto("cam", "c_fill")
    /\ UNCHANGED <<mtx, top, g_jpeg_buffer, copied, result_json, frame_file, seen_partial,
                   coreVars, notShare>>

\* the backend predict adds its detections (cira_add_detection) and returns
\* CIRA_OK; camera.cpp lines 157-170
CamFill ==
    /\ tpc["cam"] = "c_fill"
    /\ \E n \in 0..MaxCount :
         det_list' = [gen |-> det_list.gen + 1, count |-> n, partial |-> FALSE]
    /\ Unlock("model_mutex")
    /\ Goto("cam", "idle")
    /\ UNCHANGED <<top, g_jpeg_buffer, copied, result_json, frame_file, seen_partial, coreVars,
                   notShare>>

\* ---- jpeg_encode and jpeg_encode_annotated, jpeg_encoder.cpp ----

\* lines 44 and 89
EncodeLock(t) ==
    /\ tpc[t] = "e_lock"
    /\ Lock("g_jpeg_mutex", t)
    /\ Goto(t, IF top[t].ann THEN "e_rlock" ELSE "e_clear")
    /\ UNCHANGED <<top, g_jpeg_buffer, copied, det_list, result_json, frame_file, seen_partial,
                   coreVars, notShare>>

\* line 99
EncodeResultLock(t) ==
    /\ tpc[t] = "e_rlock"
    /\ Lock("result_mutex", t)
    /\ Goto(t, "e_draw")
    /\ UNCHANGED <<top, g_jpeg_buffer, copied, det_list, result_json, frame_file, seen_partial,
                   coreVars, notShare>>

\* lines 101-153: the detections are read and drawn, result_mutex released
EncodeDraw(t) ==
    /\ tpc[t] = "e_draw"
    /\ seen_partial' = (seen_partial \/ det_list.partial)
    /\ Unlock("result_mutex")
    /\ Goto(t, "e_clear")
    /\ UNCHANGED <<top, g_jpeg_buffer, copied, det_list, result_json, frame_file, coreVars,
                   notShare>>

\* lines 58 and 160: g_jpeg_buffer.clear(), imencode starts to fill it
EncodeClear(t) ==
    /\ tpc[t] = "e_clear"
    /\ g_jpeg_buffer' = "torn"
    /\ Goto(t, "e_encode")
    /\ UNCHANGED <<mtx, top, copied, det_list, result_json, frame_file, seen_partial, coreVars,
                   notShare>>

EncodeFailKeepsLock == mtx

\* lines 59-62 and 161-164: the failure path of imencode
EncodeFailUnlock == [mtx EXCEPT !["g_jpeg_mutex"] = "none"]

\* where the caller continues after the encoder returned
AfterEncode(t, ok) ==
    IF top[t].op = "stream"
    THEN IF ok THEN "s_copy" ELSE IF top[t].ann THEN "e_lock" ELSE "idle"
    ELSE IF ok THEN "w_lock" ELSE IF t = "cam" THEN "c_check" ELSE "idle"

\* lines 59-68 and 161-170: imencode ends, the pointer into g_jpeg_buffer
\* is handed out and g_jpeg_mutex released.  stream_callback falls back to
\* jpeg_encode when the annotated encode fails (stream_server.c line 231).
EncodeReturn(t) ==
    /\ tpc[t] = "e_encode"
    /\ \E ok \in BOOLEAN :
         /\ g_jpeg_buffer' = IF ok THEN t ELSE "torn"
         /\ mtx' = IF ok THEN [mtx EXCEPT !["g_jpeg_mutex"] = "none"] ELSE EncodeFailUnlock
         /\ Goto(t, AfterEncode(t, ok))
         /\ top' = IF ~ok /\ top[t].op = "stream" THEN [top EXCEPT ![t].ann = FALSE] ELSE top
    /\ UNCHANGED <<copied, det_list, result_json, frame_file, seen_partial, coreVars, notShare>>

\* ---- stream_callback, stream_server.c lines 214-250 ----

StreamBegin(t) ==
    /\ t \in HttpThreads
    /\ tpc[t] = "idle"
    /\ \E annotated \in BOOLEAN : top' = [top EXCEPT ![t] = [op |-> "stream", ann |-> annotated]]
    /\ copied' = [copied EXCEPT ![t] = "none"]
    /\ Goto(t, "e_lock")
    /\ UNCHANGED <<mtx, g_jpeg_buffer, det_list, result_json, frame_file, seen_partial, coreVars,
                   notShare>>

\* line 246: memcpy(sctx->jpeg_data, jpeg_ptr, jpeg_size)
StreamCopy(t) ==
    /\ tpc[t] = "s_copy"
    /\ copied' = [copied EXCEPT ![t] = g_jpeg_buffer]
    /\ Goto(t, "idle")
    /\ UNCHANGED <<mtx, top, g_jpeg_buffer, det_list, result_json, frame_file, seen_partial,
                   coreVars, notShare>>

\* ---- cira_write_frame_file, stream_server.c lines 101-170 ----

\* line 134
WriteLock(t) ==
    /\ tpc[t] = "w_lock"
    /\ Lock("frame_file_mutex", t)
    /\ Goto(t, "w_write")
    /\ UNCHANGED <<top, g_jpeg_buffer, copied, det_list, result_json, frame_file, seen_partial,
                   coreVars, notShare>>

\* lines 137-167: fwrite(jpeg, 1, jpeg_size, f) and rename, or a file error;
\* every path unlocks
WriteFile(t) ==
    /\ tpc[t] = "w_write"
    /\ copied' = [copied EXCEPT ![t] = g_jpeg_buffer]
    /\ \E file_ok \in BOOLEAN :
         /\ frame_file' = (frame_file \/ file_ok)
         /\ Goto(t, IF t = "cam" THEN "c_check" ELSE IF file_ok THEN "f_relock" ELSE "idle")
    /\ Unlock("frame_file_mutex")
    /\ UNCHANGED <<top, g_jpeg_buffer, det_list, result_json, seen_partial, coreVars, notShare>>

\* ---- handle_frame_latest, stream_server.c lines 958-1074 ----

\* line 959
LatestLock(t) ==
    /\ t \in HttpThreads
    /\ tpc[t] \in {"idle", "f_relock"}
    /\ Lock("frame_file_mutex", t)
    /\ Goto(t, IF tpc[t] = "idle" THEN "f_check" ELSE "f_read")
    /\ top' = IF tpc[t] = "idle" THEN [top EXCEPT ![t] = [op |-> "latest", ann |-> TRUE]] ELSE top
    /\ copied' = IF tpc[t] = "idle" THEN [copied EXCEPT ![t] = "none"] ELSE copied
    /\ UNCHANGED <<g_jpeg_buffer, det_list, result_json, frame_file, seen_partial, coreVars,
                   notShare>>

\* lines 962-992: without a frame file the mutex is released and
\* cira_write_frame_file(ctx, 1) called
LatestCheck(t) ==
    /\ tpc[t] = "f_check"
    /\ IF frame_file
       THEN /\ Goto(t, "f_read")
            /\ UNCHANGED mtx
       ELSE /\ Unlock("frame_file_mutex")
            /\ Goto(t, "e_lock")
    /\ UNCHANGED <<top, g_jpeg_buffer, copied, det_list, result_json, frame_file, seen_partial,
                   coreVars, notShare>>

\* lines 995-1043: the file is read, or an error answered; every path unlocks
LatestRead(t) ==
    /\ tpc[t] = "f_read"
    /\ Unlock("frame_file_mutex")
    /\ Goto(t, "idle")
    /\ UNCHANGED <<top, g_jpeg_buffer, copied, det_list, result_json, frame_file, seen_partial,
                   coreVars, notShare>>

\* ---- cira_predict_image, cira.c lines 600-637 ----

\* line 600
SharePredictLock ==
    /\ tpc["api"] = "idle"
    /\ det_list.gen < MaxInfer
    /\ Lock("result_mutex", "api")
    /\ Goto("api", "p_zero")
    /\ UNCHANGED <<top, g_jpeg_buffer, copied, det_list, result_json, frame_file, seen_partial,
                   coreVars, notShare>>

\* line 602: ctx->num_detections = 0
SharePredictZero ==
    /\ tpc["api"] = "p_zero"
    /\ det_list' = [det_list EXCEPT !.count = 0, !.partial = TRUE]
    /\ Goto("api", "p_backend")
    /\ UNCHANGED <<mtx, top, g_jpeg_buffer, copied, result_json, frame_file, seen_partial,
                   coreVars, notShare>>

\* lines 604-637: the backend fills the list and build_result_json renders
\* it, or the backend fails and leaves the list empty
SharePredictBackend ==
    /\ tpc["api"] = "p_backend"
    /\ \E ok \in BOOLEAN, n \in 0..MaxCount :
         IF ok
         THEN /\ det_list' = [gen |-> det_list.gen + 1, count |-> n, partial |-> FALSE]
              /\ result_json' = [gen |-> det_list.gen + 1, count |-> n]
         ELSE /\ det_list' = [det_list EXCEPT !.count = 0, !.partial = FALSE]
              /\ UNCHANGED result_json
    /\ Unlock("result_mutex")
    /\ Goto("api", "idle")
    /\ UNCHANGED <<top, g_jpeg_buffer, copied, frame_file, seen_partial, coreVars, notShare>>

NextShare ==
    \/ CamStoreLock
    \/ CamStoreUnlock
    \/ CamTryModel
    \/ CamClear
    \/ CamFill
    \/ SharePredictLock
    \/ SharePredictZero
    \/ SharePredictBackend
    \/ \E t \in ShareThreads :
         \/ EncodeLock(t)
         \/ EncodeResultLock(t)
         \/ EncodeDraw(t)
         \/ EncodeClear(t)
         \/ EncodeReturn(t)
         \/ StreamBegin(t)
         \/ StreamCopy(t)
         \/ WriteLock(t)
         \/ WriteFile(t)
         \/ LatestLock(t)
         \/ LatestCheck(t)
         \/ LatestRead(t)

SpecShare == InitShare /\ [][NextShare]_vars

\* C25: the JPEG bytes a caller reads through the pointer jpeg_encode or
\* jpeg_encode_annotated returned are the bytes its own encode call
\* produced, whatever the other threads encode meanwhile.
C25_CallerReadsOwnJpeg ==
    \A t \in ShareThreads : copied[t] \in {"none", t}

\* C26: the detection list is written only by a thread that holds
\* result_mutex, and a thread reading it under result_mutex never sees it
\* cleared or half refilled.
C26_DetectionsWrittenUnderResultMutex ==
    /\ \A t \in ShareThreads :
         tpc[t] \in {"c_clear", "c_fill", "p_zero", "p_backend"} => mtx["result_mutex"] = t
    /\ ~seen_partial

\* C29: after a completed inference that updated the detection list, the
\* JSON of cira_result_json and /api/results describes that list: it was
\* built from it and its count is cira_result_count.
C29_JsonDescribesDetections ==
    ~det_list.partial =>
        (det_list.gen > 0 => (result_json.gen = det_list.gen /\ result_json.count = det_list.count))

HeldBy(t) == {m \in Mutexes : mtx[m] = t}

\* the mutex a thread stands in pthread_mutex_lock for, or "none"
Wanted(t) ==
    CASE tpc[t] = "e_lock" -> "g_jpeg_mutex"
      [] tpc[t] = "e_rlock" -> "result_mutex"
      [] tpc[t] \in {"w_lock", "f_relock"} -> "frame_file_mutex"
      [] OTHER -> "none"

Blocked(t) == Wanted(t) # "none" /\ mtx[Wanted(t)] # "none"

\* the thread that holds what t waits for
Holder(t) == mtx[Wanted(t)]

\* t waits, directly or through other waiting threads, for a mutex that
\* its own progress would have to release
RECURSIVE WaitsInCycle(_, _, _)
WaitsInCycle(t, u, n) ==
    /\ Blocked(u)
    /\ \/ Holder(u) = t
       \/ n > 0 /\ WaitsInCycle(t, Holder(u), n - 1)

\* the one nesting of the runtime: result_mutex inside g_jpeg_mutex
NestsInside(inner, outer) == inner = "result_mutex" /\ outer = "g_jpeg_mutex"

\* C27: no interleaving deadlocks on g_jpeg_mutex, result_mutex,
\* frame_mutex, frame_file_mutex and model_mutex: a thread that has returned
\* holds no mutex, nested locks are taken in one order, and no thread waits
\* in a cycle.
C27_NoDeadlock ==
    \A t \in ShareThreads :
        /\ tpc[t] = "idle" => HeldBy(t) = {}
        /\ Wanted(t) # "none" => \A held \in HeldBy(t) : NestsInside(Wanted(t), held)
        /\ \A outer \in HeldBy(t), inner \in HeldBy(t) :
              outer # inner => (NestsInside(inner, outer) \/ NestsInside(outer, inner))
        /\ ~WaitsInCycle(t, t, Cardinality(ShareThreads))

\* a thread holds g_jpeg_mutex and result_mutex while another one waits
C27_Witness_NestedAndContended ==
    \E t \in ShareThreads, u \in ShareThreads :
        /\ HeldBy(t) = {"g_jpeg_mutex", "result_mutex"}
        /\ Blocked(u)
        /\ Holder(u) = t

(***************************************************************************)
(* camera_start and camera_stop (camera.cpp), called through               *)
(* cira_start_camera / cira_stop_camera (cira.c) and by handle_camera_start*)
(* / handle_camera_stop on MHD's connection threads (stream_server.c), and *)
(* the capture threads they create.  No lock is taken anywhere on this     *)
(* path, so each read and each write of the shared state is a step.        *)
(***************************************************************************)
MaxCaptures == 2

InitCamera ==
    /\ CreatedCamera
    /\ cpc = [t \in CamCallers |-> "idle"]
    /\ NoIou
    /\ NoServer
    /\ NoStream
    /\ NoShare
    /\ NoDecode
    /\ NoNms
    /\ NoFusion
    /\ NoRuntime
    /\ NoBackend
    /\ NoShape

CamGoto(t, label) == cpc' = [cpc EXCEPT ![t] = label]

\* cira.c line 720 and camera.cpp lines 205-208
CameraStartCheck(t) ==
    /\ cpc[t] = "idle"
    /\ ncap < MaxCaptures
    /\ CamGoto(t, IF camera_running # 0 THEN "idle" ELSE "s_open")
    /\ UNCHANGED <<camera_running, g_capture, captures, cam_threads, camera_thread, ncap,
                   coreVars, notCamera>>

\* camera.cpp lines 213-244: new VideoCapture, open(device_id)
CameraStartOpen(t) ==
    /\ cpc[t] = "s_open"
    /\ \E opened \in BOOLEAN :
         IF opened
         THEN /\ ncap' = ncap + 1
              /\ g_capture' = ncap + 1
              /\ captures' = captures \cup {ncap + 1}
              /\ CamGoto(t, "s_run")
         ELSE /\ g_capture' = 0
              /\ CamGoto(t, "idle")
              /\ UNCHANGED <<ncap, captures>>
    /\ UNCHANGED <<camera_running, cam_threads, camera_thread, coreVars, notCamera>>

\* camera.cpp line 250
CameraStartRun(t) ==
    /\ cpc[t] = "s_run"
    /\ camera_running' = 1
    /\ CamGoto(t, "s_create")
    /\ UNCHANGED <<g_capture, captures, cam_threads, camera_thread, ncap, coreVars, notCamera>>

\* camera.cpp lines 252-263: pthread_create, or its failure path
CameraStartCreate(t) ==
    /\ cpc[t] = "s_create"
    /\ \E created \in BOOLEAN :
         IF created
         THEN /\ ncap' = ncap + 1
              /\ camera_thread' = ncap + 1
              /\ cam_threads' = cam_threads \cup {[id |-> ncap + 1, state |-> "started"]}
              /\ UNCHANGED <<camera_running, g_capture, captures>>
         ELSE /\ camera_running' = 0
              /\ captures' = captures \ {g_capture}
              /\ g_capture' = 0
              /\ UNCHANGED <<ncap, camera_thread, cam_threads>>
    /\ CamGoto(t, "idle")
    /\ UNCHANGED <<coreVars, notCamera>>

\* cira.c line 732 and camera.cpp lines 272-275
CameraStopCheck(t) ==
    /\ cpc[t] = "idle"
    /\ CamGoto(t, IF camera_running = 0 THEN "idle" ELSE "t_signal")
    /\ UNCHANGED <<camera_running, g_capture, captures, cam_threads, camera_thread, ncap,
                   coreVars, notCamera>>

\* camera.cpp line 280
CameraStopSignal(t) ==
    /\ cpc[t] = "t_signal"
    /\ camera_running' = 0
    /\ CamGoto(t, "t_join")
    /\ UNCHANGED <<g_capture, captures, cam_threads, camera_thread, ncap, coreVars, notCamera>>

\* camera.cpp line 283: pthread_join returns when ctx->camera_thread has ended
CameraStopJoin(t) ==
    /\ cpc[t] = "t_join"
    /\ \A th \in cam_threads : th.id # camera_thread
    /\ CamGoto(t, "t_release")
    /\ UNCHANGED <<camera_running, g_capture, captures, cam_threads, camera_thread, ncap,
                   coreVars, notCamera>>

\* camera.cpp lines 286-296
CameraStopRelease(t) ==
    /\ cpc[t] = "t_release"
    /\ captures' = captures \ {g_capture}
    /\ g_capture' = 0
    /\ CamGoto(t, "idle")
    /\ UNCHANGED <<camera_running, cam_threads, camera_thread, ncap, coreVars, notCamera>>

\* camera.cpp lines 85-88: the new thread returns at once when g_capture is
\* NULL or not opened, otherwise it enters the loop
CaptureThreadStart(th) ==
    /\ th \in cam_threads
    /\ th.state = "started"
    /\ cam_threads' = IF g_capture = 0 \/ g_capture \notin captures
                      THEN cam_threads \ {th}
                      ELSE (cam_threads \ {th}) \cup {[th EXCEPT !.state = "looping"]}
    /\ UNCHANGED <<camera_running, g_capture, captures, camera_thread, cpc, ncap, coreVars,
                   notCamera>>

\* camera.cpp line 98: the loop ends when it reads camera_running = 0
CaptureThreadExit(th) ==
    /\ th \in cam_threads
    /\ th.state = "looping"
    /\ camera_running = 0
    /\ cam_threads' = cam_threads \ {th}
    /\ UNCHANGED <<camera_running, g_capture, captures, camera_thread, cpc, ncap, coreVars,
                   notCamera>>

NextCamera ==
    \/ \E t \in CamCallers :
         \/ CameraStartCheck(t)
         \/ CameraStartOpen(t)
         \/ CameraStartRun(t)
         \/ CameraStartCreate(t)
         \/ CameraStopCheck(t)
         \/ CameraStopSignal(t)
         \/ CameraStopJoin(t)
         \/ CameraStopRelease(t)
    \/ \E th \in cam_threads :
         \/ CaptureThreadStart(th)
         \/ CaptureThreadExit(th)

SpecCamera == InitCamera /\ [][NextCamera]_vars

\* C30: at most one capture thread and one open capture device exist at
\* any time, whatever the interleaving of the camera start and stop requests.
C30_OneCaptureThreadAndDevice ==
    /\ Cardinality(cam_threads) <= 1
    /\ Cardinality(captures) <= 1

====
